---- MODULE Spec2Model ----
(***************************************************************************)
(* Keep-Server: the REST surface of src/src/routes/listRoutes.ts over the  *)
(* List collection (src/unnamed/part_005) behind the middleware of         *)
(* src/unnamed/part_006.                                                   *)
(*                                                                         *)
(* Spec      : every route handler runs to completion as one action (one   *)
(*             request at a time); one list id can be minted.              *)
(* OrderSpec : the owner's item operations on one list, deep enough for    *)
(*             deletions followed by additions and reorders.               *)
(* SortSpec  : the owner's item operations on one list of a few items,     *)
(*             reordered by every duplicate-free sequence of its ids.      *)
(* ItemsSpec : the owner's adds, field updates and deletes of items.       *)
(* ListsSpec : several lists and a few items, reordered by full            *)
(*             permutations, and the read of all lists.                    *)
(* ConcSpec  : requests in flight together, one step per await.            *)
(* ReorderSpec, CollabSpec, EditorsSpec, RevokeSpec, RaceSpec : the        *)
(*             reorder bodies, and the requests in flight together, that   *)
(*             the sections below describe.                                *)
(* RelaySpec : the realtime channel of src/unnamed/part_004.               *)
(* ChannelSpec : the REST routes and the realtime channel side by side.    *)
(***************************************************************************)
EXTENDS Integers, Sequences, FiniteSets, Bags, TLC

VARIABLES store, nextOid, nextItem, last, removed, inflight, relay

vars == <<store, nextOid, nextItem, last, removed, inflight, relay>>

---------------------------------------------------------------------------
(* Bounds of the model.                                                    *)

\* documents ever inserted under Spec (the _id counter stops there)
MaxDocs == 1
\* item ids ever generated under Spec and ConcSpec
MaxItemIds == 1
\* item ids ever generated under OrderSpec
MaxOrderIds == 5
\* items one list holds at a time under OrderSpec
MaxLen == 3
\* documents ever inserted under ConcSpec
MaxConcDocs == 2
\* requests in flight together under ConcSpec
MaxInFlight == 2
\* lists ever created under ListsSpec
MaxLists == 2
\* item ids ever generated under ListsSpec
MaxListItems == 3
\* items the list holds at a time under ListsSpec
MaxListLen == 2
\* item ids ever generated under SortSpec
MaxSortItems == 3

---------------------------------------------------------------------------
(* Values.                                                                 *)

Users == {"u1", "u2", "u3"}
\* a request's credential: a registered user's token, no header, a bad token
Creds == Users \cup {"none", "bad"}
\* the emails a request can name: one per registered user, and an unknown one
Emails == Users \cup {"nobody"}
ListIds == {"L1", "L2", "L3"}
Absent == "absent"
DefaultName == "Untitled List"

Null == [oid |-> 0]
Exists(doc) == doc.oid # 0

NoRequest == [op |-> "none"]

\* the connections of the realtime channel (socket ids), the events a server
\* emits, and the opaque changes a list_updated event carries
Conns == {"c1", "c2"}
Changes == {"a", "b"}

\* no event was emitted by the last step
NoEvent ==
  [event |-> "none", room |-> "", from |-> "", to |-> {},
   payload |-> [listId |-> Absent, changes |-> Absent]]

\* no handler of the channel has run
NoHandler == [op |-> "none", conn |-> "", room |-> "", rooms |-> [c \in Conns |-> {}]]

\* User.findOne({ email }): the registered user with that email, if any
UserByEmail(email) == IF email \in Users THEN email ELSE "nouser"

---------------------------------------------------------------------------
(* Helpers over sequences.                                                 *)

Range(s) == {s[i] : i \in DOMAIN s}

RECURSIVE SeqFilter(_, _)
SeqFilter(s, keep) ==
  IF s = <<>> THEN <<>>
  ELSE IF Head(s) \in keep THEN <<Head(s)>> \o SeqFilter(Tail(s), keep)
       ELSE SeqFilter(Tail(s), keep)

\* all sequences over S of length 0..n
RECURSIVE SeqsUpTo(_, _)
SeqsUpTo(S, n) ==
  IF n = 0 THEN {<<>>}
  ELSE LET shorter == SeqsUpTo(S, n - 1)
       IN  shorter \cup {Append(s, x) : s \in shorter, x \in S}

ItemIdsOf(items) == [i \in DOMAIN items |-> items[i].itemId]
CollabIdsOf(collabs) == {collabs[i].userId : i \in DOMAIN collabs}

\* Array.prototype.find over collaborators: index of the first entry of uid, 0 if none
FindCollaborator(collabs, uid) ==
  IF \E i \in DOMAIN collabs : collabs[i].userId = uid
  THEN CHOOSE i \in DOMAIN collabs :
         /\ collabs[i].userId = uid
         /\ \A j \in 1..(i - 1) : collabs[j].userId # uid
  ELSE 0

\* Array.prototype.find over items: index of the first item with that id, 0 if none
FindItem(items, itemId) ==
  IF \E i \in DOMAIN items : items[i].itemId = itemId
  THEN CHOOSE i \in DOMAIN items :
         /\ items[i].itemId = itemId
         /\ \A j \in 1..(i - 1) : items[j].itemId # itemId
  ELSE 0

\* mutant of InsertByOrder: an item goes before the items of equal order
RECURSIVE InsertByOrder_BeforeEqual(_, _)
InsertByOrder_BeforeEqual(sorted, it) ==
  IF sorted = <<>> THEN <<it>>
  ELSE IF sorted[Len(sorted)].order < it.order THEN Append(sorted, it)
       ELSE Append(InsertByOrder_BeforeEqual(SubSeq(sorted, 1, Len(sorted) - 1), it),
                   sorted[Len(sorted)])

\* list.items.sort((a, b) => a.order - b.order): a stable sort, by insertion
RECURSIVE InsertByOrder(_, _)
InsertByOrder(sorted, it) ==
  IF sorted = <<>> THEN <<it>>
  ELSE IF sorted[Len(sorted)].order <= it.order THEN Append(sorted, it)
       ELSE Append(InsertByOrder(SubSeq(sorted, 1, Len(sorted) - 1), it),
                   sorted[Len(sorted)])

RECURSIVE SortByOrderFrom(_, _)
SortByOrderFrom(done, rest) ==
  IF rest = <<>> THEN done
  ELSE SortByOrderFrom(InsertByOrder(done, Head(rest)), Tail(rest))

SortByOrder(items) == SortByOrderFrom(<<>>, items)

---------------------------------------------------------------------------
(* The List document and the middleware.                                   *)

\* new List({ listId, name, items: [], owner }) with the schema's defaults
\* mutant of NewList: a new list is pinned
NewList_Pinned(oid, ownerId, name) ==
  [oid |-> oid, owner |-> ownerId,
   name |-> IF name = Absent THEN DefaultName ELSE name,
   collaborators |-> <<>>, items |-> <<>>,
   archived |-> FALSE, pinned |-> TRUE, order |-> 0]

NewList(oid, ownerId, name) ==
  [oid |-> oid, owner |-> ownerId,
   name |-> IF name = Absent THEN DefaultName ELSE name,
   collaborators |-> <<>>, items |-> <<>>,
   archived |-> FALSE, pinned |-> FALSE, order |-> 0]

\* what a handler answers: a status, and the document it leaves in the store
R(status, doc) == [status |-> status, doc |-> doc]

\* mutant of protect: any Authorization header is taken for a verified token
protect_HeaderOnly(cred) == IF cred # "none" THEN 0 ELSE 401

\* protect: 0 lets the request through to next()
protect(cred) == IF cred \in Users THEN 0 ELSE 401

isOwner(doc, uid) == doc.owner = uid

\* mutant of hasEditAccess: only the owner may edit
hasEditAccess_OwnerOnly(doc, uid) == isOwner(doc, uid)

\* mutant of hasEditAccess: the collaborator's permission is not looked at
hasEditAccess_AnyCollaborator(doc, uid) ==
  \/ isOwner(doc, uid)
  \/ FindCollaborator(doc.collaborators, uid) # 0

hasEditAccess(doc, uid) ==
  \/ isOwner(doc, uid)
  \/ LET i == FindCollaborator(doc.collaborators, uid)
     IN  i # 0 /\ doc.collaborators[i].permission = "edit"

\* mutant of protectListEditAccess: access is decided before existence
protectListEditAccess_AccessFirst(doc, uid) ==
  IF ~(Exists(doc) /\ hasEditAccess(doc, uid)) THEN 403
  ELSE 0

\* mutant of protectListEditAccess: a user who is not on the list is told that
\* there is no such list
protectListEditAccess_HidesFromStrangers(doc, uid) ==
  IF ~Exists(doc) THEN 404
  ELSE IF ~isOwner(doc, uid) /\ FindCollaborator(doc.collaborators, uid) = 0 THEN 404
  ELSE IF ~hasEditAccess(doc, uid) THEN 403
  ELSE 0

\* protectListEditAccess: 0 lets the request through to next()
protectListEditAccess(doc, uid) ==
  IF ~Exists(doc) THEN 404
  ELSE IF ~hasEditAccess(doc, uid) THEN 403
  ELSE 0

\* the documents List.find({ $or: [{ owner }, { 'collaborators.userId' }] }) matches
\* mutant of VisibleTo: only the lists the user owns
VisibleTo_OwnerOnly(st, uid) ==
  {l \in ListIds : Exists(st[l]) /\ st[l].owner = uid}

VisibleTo(st, uid) ==
  {l \in ListIds : /\ Exists(st[l])
                   /\ \/ st[l].owner = uid
                      \/ uid \in CollabIdsOf(st[l].collaborators)}

---------------------------------------------------------------------------
(* The handlers' bodies after protect, as functions of the document that   *)
(* List.findOne returned (Null when there is none).                        *)

\* PUT /:listId
UpdateListName(doc, uid, name) ==
  IF ~Exists(doc) THEN R(404, doc)
  ELSE IF ~isOwner(doc, uid) THEN R(403, doc)
  ELSE R(200, [doc EXCEPT !.name = IF name = Absent THEN @ ELSE name])

\* mutant of DeleteList: the document is deleted before the owner check answers
DeleteList_BeforeOwnerCheck(doc, uid) ==
  IF ~Exists(doc) THEN R(404, doc)
  ELSE IF ~isOwner(doc, uid) THEN R(403, Null)
  ELSE R(200, Null)

\* DELETE /:listId
DeleteList(doc, uid) ==
  IF ~Exists(doc) THEN R(404, doc)
  ELSE IF ~isOwner(doc, uid) THEN R(403, doc)
  ELSE R(200, Null)

\* mutant of AddCollaborator: the new collaborator may edit at once
AddCollaborator_DefaultEdit(doc, uid, email) ==
  LET target == UserByEmail(email)
  IN  IF ~Exists(doc) THEN R(404, doc)
      ELSE IF ~isOwner(doc, uid) THEN R(403, doc)
      ELSE IF target \notin Users THEN R(404, doc)
      ELSE IF target \in CollabIdsOf(doc.collaborators) THEN R(400, doc)
      ELSE IF doc.owner = target THEN R(400, doc)
      ELSE R(200, [doc EXCEPT !.collaborators =
                     Append(@, [userId |-> target, permission |-> "edit"])])

\* mutant of AddCollaborator: a user who is a collaborator already is added again
AddCollaborator_NoDuplicateCheck(doc, uid, email) ==
  LET target == UserByEmail(email)
  IN  IF ~Exists(doc) THEN R(404, doc)
      ELSE IF ~isOwner(doc, uid) THEN R(403, doc)
      ELSE IF target \notin Users THEN R(404, doc)
      ELSE IF doc.owner = target THEN R(400, doc)
      ELSE R(200, [doc EXCEPT !.collaborators =
                     Append(@, [userId |-> target, permission |-> "view"])])

\* mutant of AddCollaborator: the target is not compared with the owner
AddCollaborator_OwnerAllowed(doc, uid, email) ==
  LET target == UserByEmail(email)
  IN  IF ~Exists(doc) THEN R(404, doc)
      ELSE IF ~isOwner(doc, uid) THEN R(403, doc)
      ELSE IF target \notin Users THEN R(404, doc)
      ELSE IF target \in CollabIdsOf(doc.collaborators) THEN R(400, doc)
      ELSE R(200, [doc EXCEPT !.collaborators =
                     Append(@, [userId |-> target, permission |-> "view"])])

\* POST /:listId/collaborators
AddCollaborator(doc, uid, email) ==
  LET target == UserByEmail(email)
  IN  IF ~Exists(doc) THEN R(404, doc)
      ELSE IF ~isOwner(doc, uid) THEN R(403, doc)
      ELSE IF target \notin Users THEN R(404, doc)
      ELSE IF target \in CollabIdsOf(doc.collaborators) THEN R(400, doc)
      ELSE IF doc.owner = target THEN R(400, doc)
      ELSE R(200, [doc EXCEPT !.collaborators =
                     Append(@, [userId |-> target, permission |-> "view"])])

\* mutant of WithoutCollaborator: the filter keeps every entry
WithoutCollaborator_KeepsAll(collabs, target) == collabs

\* collaborators.filter(collab => collab.userId !== userToRemove._id)
WithoutCollaborator(collabs, target) ==
  SeqFilter(collabs, {c \in Range(collabs) : c.userId # target})

\* DELETE /:listId/collaborators
RemoveCollaborator(doc, uid, email) ==
  LET target == UserByEmail(email)
  IN  IF ~Exists(doc) THEN R(404, doc)
      ELSE IF ~isOwner(doc, uid) THEN R(403, doc)
      ELSE IF target \notin Users THEN R(404, doc)
      ELSE R(200, [doc EXCEPT !.collaborators = WithoutCollaborator(@, target)])

\* PUT /:listId/collaborators
\* mutant of UpdatePermission: the permission is stored as it comes
UpdatePermission_AnyPermission(doc, uid, email, permission) ==
  LET target == UserByEmail(email)
      i == FindCollaborator(doc.collaborators, target)
  IN  IF ~Exists(doc) THEN R(404, doc)
      ELSE IF ~isOwner(doc, uid) THEN R(403, doc)
      ELSE IF target \notin Users THEN R(404, doc)
      ELSE IF i = 0 THEN R(404, doc)
      ELSE R(200, [doc EXCEPT !.collaborators[i].permission = permission])

UpdatePermission(doc, uid, email, permission) ==
  LET target == UserByEmail(email)
      i == FindCollaborator(doc.collaborators, target)
  IN  IF ~Exists(doc) THEN R(404, doc)
      ELSE IF ~isOwner(doc, uid) THEN R(403, doc)
      ELSE IF target \notin Users THEN R(404, doc)
      ELSE IF i = 0 THEN R(404, doc)
      ELSE IF permission \notin {"view", "edit"} THEN R(400, doc)
      ELSE R(200, [doc EXCEPT !.collaborators[i].permission = permission])

\* mutant of SetArchived: archiving leaves the collaborators in place
SetArchived_KeepsCollaborators(doc, uid, archived) ==
  IF ~Exists(doc) THEN R(404, doc)
  ELSE IF ~isOwner(doc, uid) THEN R(403, doc)
  ELSE R(200, [doc EXCEPT !.archived =
                 IF archived # Absent THEN archived = "true" ELSE ~@])

\* mutant of SetArchived: the collaborators are cleared on the value supplied,
\* not on the value the flag ends with
SetArchived_ClearsOnBodyOnly(doc, uid, archived) ==
  IF ~Exists(doc) THEN R(404, doc)
  ELSE IF ~isOwner(doc, uid) THEN R(403, doc)
  ELSE R(200, [doc EXCEPT !.archived =
                 IF archived # Absent THEN archived = "true" ELSE ~@,
                          !.collaborators = IF archived = "true" THEN <<>> ELSE @])

\* mutant of SetArchived: archiving a list unpins it
SetArchived_Unpins(doc, uid, archived) ==
  IF ~Exists(doc) THEN R(404, doc)
  ELSE IF ~isOwner(doc, uid) THEN R(403, doc)
  ELSE LET value == IF archived # Absent THEN archived = "true" ELSE ~doc.archived
       IN  R(200, [doc EXCEPT !.archived = value,
                              !.collaborators = IF value THEN <<>> ELSE @,
                              !.pinned = IF value THEN FALSE ELSE @])

\* PUT /:listId/archive; archived is "true", "false" or Absent
SetArchived(doc, uid, archived) ==
  IF ~Exists(doc) THEN R(404, doc)
  ELSE IF ~isOwner(doc, uid) THEN R(403, doc)
  ELSE LET value == IF archived # Absent THEN archived = "true" ELSE ~doc.archived
       IN  R(200, [doc EXCEPT !.archived = value,
                              !.collaborators = IF value THEN <<>> ELSE @])

\* mutant of SetPinned: whoever may edit the items may pin
SetPinned_EditorsAllowed(doc, uid, pinned) ==
  IF ~Exists(doc) THEN R(404, doc)
  ELSE IF ~hasEditAccess(doc, uid) THEN R(403, doc)
  ELSE R(200, [doc EXCEPT !.pinned =
                 IF pinned # Absent THEN pinned = "true" ELSE ~@])

\* PUT /:listId/pin; pinned is "true", "false" or Absent
\* mutant of SetPinned: a request that supplies no value pins
SetPinned_OmittedPins(doc, uid, pinned) ==
  IF ~Exists(doc) THEN R(404, doc)
  ELSE IF ~isOwner(doc, uid) THEN R(403, doc)
  ELSE R(200, [doc EXCEPT !.pinned =
                 IF pinned # Absent THEN pinned = "true" ELSE TRUE])

SetPinned(doc, uid, pinned) ==
  IF ~Exists(doc) THEN R(404, doc)
  ELSE IF ~isOwner(doc, uid) THEN R(403, doc)
  ELSE R(200, [doc EXCEPT !.pinned =
                 IF pinned # Absent THEN pinned = "true" ELSE ~@])

\* GET /:listId, which no middleware guards
\* mutant of GetList: an archived list is not shown
GetList_ArchivedHidden(doc) ==
  IF ~Exists(doc) \/ doc.archived THEN R(404, doc) ELSE R(200, doc)

GetList(doc) == IF ~Exists(doc) THEN R(404, doc) ELSE R(200, doc)

\* POST /:listId/items after protectListEditAccess. The schema requires text,
\* and a required string rejects '': save() throws and the handler answers 500.
\* mutant of AddItem: the new item is put first
AddItem_Prepends(doc, itemId, text) ==
  IF ~Exists(doc) THEN R(404, doc)
  ELSE IF text = Absent THEN R(500, doc)
  ELSE R(201, [doc EXCEPT !.items =
                 <<[itemId |-> itemId, text |-> text,
                    completed |-> FALSE, order |-> Len(doc.items)]>> \o @])

AddItem(doc, itemId, text) ==
  IF ~Exists(doc) THEN R(404, doc)
  ELSE IF text = Absent THEN R(500, doc)
  ELSE R(201, [doc EXCEPT !.items =
                 Append(@, [itemId |-> itemId, text |-> text,
                            completed |-> FALSE, order |-> Len(doc.items)])])

RECURSIVE AssignOrder(_, _, _)
\* mutant of AssignOrder: positions are counted from 1
AssignOrder_OneBased(items, itemIds, k) ==
  IF k > Len(itemIds) THEN items
  ELSE LET i == FindItem(items, itemIds[k])
       IN  AssignOrder(IF i = 0 THEN items
                       ELSE [items EXCEPT ![i].order = k],
                       itemIds, k + 1)

\* itemIds.forEach((itemId, index) => { item.order = index }), from position k on
AssignOrder(items, itemIds, k) ==
  IF k > Len(itemIds) THEN items
  ELSE LET i == FindItem(items, itemIds[k])
       IN  AssignOrder(IF i = 0 THEN items
                       ELSE [items EXCEPT ![i].order = k - 1],
                       itemIds, k + 1)

\* PUT /:listId/items/reorder after protectListEditAccess;
\* body is [isArray, ids]: whether itemIds is a (non-null) array, and its ids
\* mutant of ReorderItems: after the sort the items are numbered 0, 1, 2, ...
ReorderItems_Renumbered(doc, body) ==
  IF ~Exists(doc) THEN R(404, doc)
  ELSE IF ~body.isArray THEN R(400, doc)
  ELSE IF ~(Range(body.ids) \subseteq Range(ItemIdsOf(doc.items))) THEN R(400, doc)
  ELSE LET sorted == SortByOrder(AssignOrder(doc.items, body.ids, 1))
       IN  R(200, [doc EXCEPT !.items =
                     [i \in DOMAIN sorted |-> [sorted[i] EXCEPT !.order = i - 1]]])

\* mutant of ReorderItems: ids the list does not hold are skipped, the others applied
ReorderItems_SkipsUnknown(doc, body) ==
  IF ~Exists(doc) THEN R(404, doc)
  ELSE IF ~body.isArray THEN R(400, doc)
  ELSE R(200, [doc EXCEPT !.items = SortByOrder(AssignOrder(@, body.ids, 1))])

ReorderItems(doc, body) ==
  IF ~Exists(doc) THEN R(404, doc)
  ELSE IF ~body.isArray THEN R(400, doc)
  ELSE IF ~(Range(body.ids) \subseteq Range(ItemIdsOf(doc.items))) THEN R(400, doc)
  ELSE R(200, [doc EXCEPT !.items = SortByOrder(AssignOrder(@, body.ids, 1))])

\* PUT /:listId/items/:itemId after protectListEditAccess;
\* text is a string or Absent, completed is "true", "false" or Absent
UpdateItem(doc, itemId, text, completed) ==
  LET i == IF Exists(doc) THEN FindItem(doc.items, itemId) ELSE 0
  IN  IF ~Exists(doc) THEN R(404, doc)
      ELSE IF i = 0 THEN R(404, doc)
      ELSE R(200, [doc EXCEPT
                     !.items[i].text = IF text # Absent THEN text ELSE @,
                     !.items[i].completed =
                        IF completed # Absent THEN completed = "true" ELSE @])

\* mutant of DeleteItem: the item named goes, and every item after it
DeleteItem_Truncates(doc, itemId) ==
  IF ~Exists(doc) THEN R(404, doc)
  ELSE LET i == FindItem(doc.items, itemId)
       IN  IF i = 0 THEN R(404, doc)
           ELSE R(200, [doc EXCEPT !.items = SubSeq(@, 1, i - 1)])

\* DELETE /:listId/items/:itemId after protectListEditAccess
DeleteItem(doc, itemId) ==
  IF ~Exists(doc) THEN R(404, doc)
  ELSE LET kept == SeqFilter(doc.items, {it \in Range(doc.items) : it.itemId # itemId})
       IN  IF Len(kept) = Len(doc.items) THEN R(404, doc)
           ELSE R(200, [doc EXCEPT !.items = kept])

\* an item route: protectListEditAccess, then the handler on the same document
Guarded(doc, uid, result) ==
  LET mw == protectListEditAccess(doc, uid)
  IN  IF mw # 0 THEN R(mw, doc) ELSE result

---------------------------------------------------------------------------
(* One request served from protect to its response, as one action.  last   *)
(* keeps the request, the answer, and pre: the document List.findOne gave  *)
(* the handler.                                                            *)

Init ==
  /\ store = [l \in ListIds |-> Null]
  /\ nextOid = 1
  /\ nextItem = 1
  /\ last = NoRequest
  /\ removed = {}
  /\ inflight = EmptyBag
  /\ relay = [open |-> {}, rooms |-> [c \in Conns |-> {}], sent |-> NoEvent,
              did |-> NoHandler]

Answer(op, cred, lid, arg, status) ==
  [op |-> op, cred |-> cred, lid |-> lid, arg |-> arg, status |-> status,
   pre |-> store[lid]]

\* mutant of Serve: a request that changed the list tells the list's room
Serve_Announces(op, cred, lid, arg, result) ==
  LET res == IF protect(cred) # 0 THEN R(401, store[lid]) ELSE result
  IN  /\ store' = [store EXCEPT ![lid] = res.doc]
      /\ last' = Answer(op, cred, lid, arg, res.status)
      /\ removed' = IF Exists(store[lid]) /\ ~Exists(res.doc)
                    THEN removed \cup {[lid |-> lid, oid |-> store[lid].oid]} ELSE removed
      /\ relay' = IF res.doc = store[lid] THEN relay
                  ELSE [relay EXCEPT !.sent =
                          [event |-> "list_updated", room |-> lid, from |-> "",
                           to |-> {c \in relay.open : lid \in relay.rooms[c]},
                           payload |-> [listId |-> Absent, changes |-> "a"]]]
      /\ UNCHANGED <<nextOid, inflight>>

\* a protected route on one list: protect, then the handler's result
Serve(op, cred, lid, arg, result) ==
  LET res == IF protect(cred) # 0 THEN R(401, store[lid]) ELSE result
  IN  /\ store' = [store EXCEPT ![lid] = res.doc]
      /\ last' = Answer(op, cred, lid, arg, res.status)
      /\ removed' = IF Exists(store[lid]) /\ ~Exists(res.doc)
                    THEN removed \cup {[lid |-> lid, oid |-> store[lid].oid]} ELSE removed
      /\ UNCHANGED <<nextOid, inflight, relay>>

\* generateListId() until List.findOne finds no list with the id: any unused id
generateListId(ids) == {l \in ids : ~Exists(store[l])}

\* POST /
CreateList(cred, name, ids, maxDocs) ==
  IF protect(cred) # 0
  THEN /\ last' = [op |-> "createList", cred |-> cred, lid |-> "", status |-> 401,
                   arg |-> [name |-> name], pre |-> Null]
       /\ UNCHANGED <<store, nextOid, nextItem, removed, inflight, relay>>
  ELSE /\ nextOid <= maxDocs
       /\ \E l \in generateListId(ids) :
            /\ store' = [store EXCEPT ![l] = NewList(nextOid, cred, name)]
            /\ last' = [op |-> "createList", cred |-> cred, lid |-> l, status |-> 201,
                        arg |-> [name |-> name], pre |-> Null]
       /\ nextOid' = nextOid + 1
       /\ UNCHANGED <<nextItem, removed, inflight, relay>>

PutList(cred, lid, name) ==
  /\ Serve("updateName", cred, lid, [name |-> name],
           UpdateListName(store[lid], cred, name))
  /\ UNCHANGED nextItem

DeleteListReq(cred, lid) ==
  /\ Serve("deleteList", cred, lid, [none |-> 0], DeleteList(store[lid], cred))
  /\ UNCHANGED nextItem

PostCollaborator(cred, lid, email) ==
  /\ Serve("addCollaborator", cred, lid, [email |-> email],
           AddCollaborator(store[lid], cred, email))
  /\ UNCHANGED nextItem

DeleteCollaborator(cred, lid, email) ==
  /\ Serve("removeCollaborator", cred, lid, [email |-> email],
           RemoveCollaborator(store[lid], cred, email))
  /\ UNCHANGED nextItem

PutCollaborator(cred, lid, email, permission) ==
  /\ Serve("setPermission", cred, lid, [email |-> email, permission |-> permission],
           UpdatePermission(store[lid], cred, email, permission))
  /\ UNCHANGED nextItem

PutArchive(cred, lid, archived) ==
  /\ Serve("setArchived", cred, lid, [flag |-> archived],
           SetArchived(store[lid], cred, archived))
  /\ UNCHANGED nextItem

PutPin(cred, lid, pinned) ==
  /\ Serve("setPinned", cred, lid, [flag |-> pinned],
           SetPinned(store[lid], cred, pinned))
  /\ UNCHANGED nextItem

\* GET /:listId: no protect
GetListReq(cred, lid) ==
  /\ last' = Answer("getList", cred, lid, [none |-> 0], GetList(store[lid]).status)
  /\ UNCHANGED <<store, nextOid, nextItem, removed, inflight, relay>>

\* all arrangements of the set S in a sequence
Perms(S) == {s \in SeqsUpTo(S, Cardinality(S)) : Len(s) = Cardinality(S) /\ Range(s) = S}

\* List.find(visible to uid).sort({ order: 1, updatedAt: -1 }): the visible lists
\* by ascending order; updatedAt is not modelled, so lists of equal order come in
\* either order
ReadAll(st, uid) ==
  {s \in Perms(VisibleTo(st, uid)) :
     \A i, j \in DOMAIN s : i < j => st[s[i]].order <= st[s[j]].order}

\* GET /
GetAllLists(cred) ==
  /\ IF protect(cred) # 0
     THEN last' = [op |-> "getAllLists", cred |-> cred, lid |-> "", status |-> 401,
                   arg |-> [lists |-> <<>>], pre |-> Null]
     ELSE \E s \in ReadAll(store, cred) :
            last' = [op |-> "getAllLists", cred |-> cred, lid |-> "", status |-> 200,
                     arg |-> [lists |-> s], pre |-> Null]
  /\ UNCHANGED <<store, nextOid, nextItem, removed, inflight, relay>>

PostItem(cred, lid, text, maxIds) ==
  /\ nextItem <= maxIds
  /\ Serve("addItem", cred, lid, [text |-> text, itemId |-> nextItem],
           Guarded(store[lid], cred, AddItem(store[lid], nextItem, text)))
  /\ nextItem' = IF last'.status = 201 THEN nextItem + 1 ELSE nextItem

PutItemsReorder(cred, lid, body) ==
  /\ Serve("reorderItems", cred, lid, body,
           Guarded(store[lid], cred, ReorderItems(store[lid], body)))
  /\ UNCHANGED nextItem

PutItem(cred, lid, itemId, text, completed) ==
  /\ Serve("updateItem", cred, lid,
           [itemId |-> itemId, text |-> text, completed |-> completed],
           Guarded(store[lid], cred, UpdateItem(store[lid], itemId, text, completed)))
  /\ UNCHANGED nextItem

DeleteItemReq(cred, lid, itemId) ==
  /\ Serve("deleteItem", cred, lid, [itemId |-> itemId],
           Guarded(store[lid], cred, DeleteItem(store[lid], itemId)))
  /\ UNCHANGED nextItem

\* the updateOne calls of a lists reorder, one for each index of the array, run
\* together (Promise.all): a list named more than once is left with the index
\* of whichever of its updates the store applies last
PositionsIn(ids) ==
  {at \in [Range(ids) -> DOMAIN ids] : \A l \in Range(ids) : ids[at[l]] = l}

\* PUT /reorder; body is [isArray, ids]
ReorderLists(cred, body) ==
  LET status == IF protect(cred) # 0 THEN 401
                ELSE IF ~body.isArray THEN 400
                ELSE IF ~(Range(body.ids) \subseteq VisibleTo(store, cred)) THEN 400
                ELSE 200
  IN  /\ last' = [op |-> "reorderLists", cred |-> cred, lid |-> "", arg |-> body,
                  status |-> status, pre |-> Null]
      /\ IF status # 200 THEN store' = store
         ELSE \E at \in PositionsIn(body.ids) :
                store' = [l \in ListIds |->
                            IF l \in Range(body.ids)
                            THEN [store[l] EXCEPT !.order = at[l] - 1]
                            ELSE store[l]]
      /\ UNCHANGED <<nextOid, nextItem, removed, inflight, relay>>

---------------------------------------------------------------------------
(* Spec: the whole REST surface, one request at a time, one mintable id.   *)

\* the routes behind protectListEditAccess, and the routes only the owner may use
ItemOps == {"addItem", "updateItem", "deleteItem", "reorderItems"}
OwnerOps == {"updateName", "deleteList", "addCollaborator", "removeCollaborator",
             "setPermission", "setArchived", "setPinned"}

Flags == {"true", "false", Absent}
Permissions == {"view", "edit", "admin"}
NotArray == [isArray |-> FALSE, ids |-> <<>>]
ArrayOf(ids) == [isArray |-> TRUE, ids |-> ids]

\* item ids a request can name: those generated so far, and one never generated
KnownItemIds == 1..nextItem

ItemBodies(n) == {NotArray} \cup {ArrayOf(ids) : ids \in SeqsUpTo(KnownItemIds, n)}

\* the bodies of an item update under Spec: nothing supplied, or both fields
NoUpdate == [text |-> Absent, completed |-> Absent]
ItemUpdates == {NoUpdate, [text |-> "y", completed |-> "true"]}

\* the list id Spec mints and names; a request for it before create or after
\* delete is a request for a missing list
SpecLists == {"L1"}
\* Spec's callers: u1 creates the list, u2 is the other registered user (a
\* stranger, then a collaborator), and the two ways of lacking a credential
SpecCreds == {"u1", "u2", "none", "bad"}
Creators == {"u1", "none", "bad"}
SpecEmails == {"u1", "u2", "nobody"}

\* a request rejected by protect never reads its body: one body is drawn for it
BodyFor(cred, bodies, one) == IF cred \in Users THEN bodies ELSE {one}

\* an owner route answers a caller who is not the owner before it reads the
\* body: one body is drawn for the callers that never own a list
OwnerBodyFor(cred, bodies, one) == IF cred \in Creators \cap Users THEN bodies ELSE {one}

Next ==
  \/ \E cred \in Creators : \E name \in BodyFor(cred, {Absent, "A"}, Absent) :
       CreateList(cred, name, SpecLists, MaxDocs)
  \/ \E cred \in SpecCreds, lid \in SpecLists : \E name \in OwnerBodyFor(cred, {Absent, "A"}, Absent) :
       PutList(cred, lid, name)
  \/ \E cred \in SpecCreds, lid \in SpecLists : DeleteListReq(cred, lid)
  \/ \E cred \in SpecCreds, lid \in SpecLists : \E email \in OwnerBodyFor(cred, SpecEmails, "nobody") :
       PostCollaborator(cred, lid, email)
  \/ \E cred \in SpecCreds, lid \in SpecLists : \E email \in OwnerBodyFor(cred, SpecEmails, "nobody") :
       DeleteCollaborator(cred, lid, email)
  \/ \E cred \in SpecCreds, lid \in SpecLists : \E email \in OwnerBodyFor(cred, SpecEmails, "nobody") :
        \E p \in OwnerBodyFor(cred, Permissions, "view") :
       PutCollaborator(cred, lid, email, p)
  \/ \E cred \in SpecCreds, lid \in SpecLists : \E f \in OwnerBodyFor(cred, Flags, Absent) :
       PutArchive(cred, lid, f)
  \/ \E cred \in SpecCreds, lid \in SpecLists : \E f \in OwnerBodyFor(cred, Flags, Absent) :
       PutPin(cred, lid, f)
  \/ \E cred \in {"u1", "u2", "none"}, lid \in SpecLists : GetListReq(cred, lid)
  \/ \E cred \in SpecCreds : GetAllLists(cred)
  \/ \E cred \in SpecCreds, lid \in SpecLists : \E text \in BodyFor(cred, {Absent, "x"}, Absent) :
       PostItem(cred, lid, text, MaxItemIds)
  \/ \E cred \in SpecCreds, lid \in SpecLists : \E body \in BodyFor(cred, ItemBodies(1), NotArray) :
       PutItemsReorder(cred, lid, body)
  \/ \E cred \in SpecCreds, lid \in SpecLists : \E itemId \in BodyFor(cred, KnownItemIds, 1) :
        \E body \in BodyFor(cred, ItemUpdates, NoUpdate) :
       PutItem(cred, lid, itemId, body.text, body.completed)
  \/ \E cred \in SpecCreds, lid \in SpecLists : \E itemId \in BodyFor(cred, KnownItemIds, 1) :
       DeleteItemReq(cred, lid, itemId)
  \/ \E cred \in SpecCreds :
        \E body \in BodyFor(cred, {NotArray, ArrayOf(<<>>), ArrayOf(<<"L1">>), ArrayOf(<<"L2">>)},
                         NotArray) :
       ReorderLists(cred, body)

Spec == Init /\ [][Next]_vars

---------------------------------------------------------------------------
(* OrderSpec: the owner adds, deletes and reorders the items of one list.  *)

\* the id the next create mints under OrderSpec and ListsSpec: L1, L2, L3
ListIdSeq == <<"L1", "L2", "L3">>
NextListId == IF nextOid <= Len(ListIdSeq) THEN {ListIdSeq[nextOid]} ELSE {}

ItemIdsIn(l) == IF Exists(store[l]) THEN Range(ItemIdsOf(store[l].items)) ELSE {}

\* sequences over S of length 0..n that name no element twice
Distinct(S, n) == {s \in SeqsUpTo(S, n) : \A i, j \in DOMAIN s : i # j => s[i] # s[j]}

\* reorder bodies: no array, an id the list does not hold, and every duplicate-free
\* sequence of the list's item ids
OrderBodies(l) ==
  {NotArray, ArrayOf(<<nextItem>>)} \cup {ArrayOf(ids) : ids \in Distinct(ItemIdsIn(l), MaxLen)}

OrderNext ==
  \/ CreateList("u1", "A", NextListId, 1)
  \/ /\ Exists(store["L1"]) /\ Len(store["L1"].items) < MaxLen
     /\ PostItem("u1", "L1", "x", MaxOrderIds)
  \/ \E itemId \in ItemIdsIn("L1") : DeleteItemReq("u1", "L1", itemId)
  \/ \E body \in OrderBodies("L1") : PutItemsReorder("u1", "L1", body)

OrderSpec == Init /\ [][OrderNext]_vars

---------------------------------------------------------------------------
(* SortSpec: the owner adds a few items to one list, deletes them and      *)
(* reorders them by every duplicate-free sequence of the ids it holds.     *)

SortBodies(l) ==
  {NotArray, ArrayOf(<<nextItem>>)}
    \cup {ArrayOf(ids) : ids \in Distinct(ItemIdsIn(l), MaxSortItems)}

SortNext ==
  \/ CreateList("u1", "A", NextListId, 1)
  \/ PostItem("u1", "L1", "x", MaxSortItems)
  \/ \E itemId \in ItemIdsIn("L1") : DeleteItemReq("u1", "L1", itemId)
  \/ \E body \in SortBodies("L1") : PutItemsReorder("u1", "L1", body)

SortSpec == Init /\ [][SortNext]_vars

---------------------------------------------------------------------------
(* ItemsSpec: the owner adds a few items to one list, updates them field   *)
(* by field and deletes them, naming items the list holds and one it does  *)
(* not.                                                                    *)

\* item ids ever generated under ItemsSpec
MaxItems == 2

\* the bodies of an item update: each field supplied or left out
FieldUpdates == [text : {Absent, "y"}, completed : {Absent, "true", "false"}]

ItemsNext ==
  \/ CreateList("u1", "A", NextListId, 1)
  \/ PostItem("u1", "L1", "x", MaxItems)
  \/ \E itemId \in ItemIdsIn("L1") \cup {nextItem} : \E body \in FieldUpdates :
       PutItem("u1", "L1", itemId, body.text, body.completed)
  \/ \E itemId \in ItemIdsIn("L1") \cup {nextItem} : DeleteItemReq("u1", "L1", itemId)

ItemsSpec == Init /\ [][ItemsNext]_vars

---------------------------------------------------------------------------
(* ListsSpec: u1 creates lists and shares some with u2, adds items to L1;  *)
(* both reorder their visible lists and the items of L1 by full            *)
(* permutations, and read their lists.                                     *)

ListsCreds == {"u1", "u2"}

ListsNext ==
  \/ CreateList("u1", "A", NextListId, MaxLists)
  \/ \E lid \in ListIds : PostCollaborator("u1", lid, "u2")
  \/ /\ Exists(store["L1"]) /\ Len(store["L1"].items) < MaxListLen
     /\ PostItem("u1", "L1", "x", MaxListItems)
  \/ \E itemId \in ItemIdsIn("L1") : DeleteItemReq("u1", "L1", itemId)
  \/ \E ids \in Perms(ItemIdsIn("L1")) : PutItemsReorder("u1", "L1", ArrayOf(ids))
  \/ \E cred \in ListsCreds : \E ids \in Perms(VisibleTo(store, cred)) :
       ReorderLists(cred, ArrayOf(ids))
  \/ \E cred \in ListsCreds : GetAllLists(cred)

ListsSpec == Init /\ [][ListsNext]_vars

---------------------------------------------------------------------------
(* ConcSpec: requests in flight together.  A request takes one step per    *)
(* await that reads or writes the List collection: the middleware's        *)
(* findOne, the handler's findOne (with the synchronous code up to the     *)
(* next await), and save() / deleteOne().  protect reads only the User     *)
(* collection, which no route changes, so it is part of the first step.    *)

ConcLists == {"L1"}
ConcCreds == {"u1"}

\* inflight is the bag of the requests that wait at an await
One(r) == SetToBag({r})
Waiting(pc) == {r \in BagToSet(inflight) : r.pc = pc}
\* how many requests wait at pc
CountAt(pc) == BagCardinality([r \in Waiting(pc) |-> inflight[r]])

\* a request as it arrives: no document loaded yet.  doc is the document its
\* findOne returns, upd that document as the handler changed it in memory, and
\* stale tells that the stored document's version key (__v) moved on since
Request(op, cred, lid, arg) ==
  [op |-> op, cred |-> cred, lid |-> lid, arg |-> arg, doc |-> Null, upd |-> Null,
   status |-> 0, stale |-> FALSE, pc |-> "new"]

\* inflight without request r (which is not in it when it has just arrived)
Without(r) == IF r.pc = "new" THEN inflight ELSE inflight (-) One(r)

\* request r goes on to wait at its next await, as request next
Park(r, next) ==
  /\ inflight' = Without(r) (+) One(next)
  /\ UNCHANGED last

\* request r is answered: it is no longer in flight and last is the answer
Finish(r, status, pre) ==
  /\ inflight' = Without(r)
  /\ last' = [op |-> r.op, cred |-> r.cred, lid |-> r.lid, arg |-> r.arg,
              status |-> status, pre |-> pre]

\* protectListEditAccess: its own List.findOne, then next() or the answer
EditAccessStep(r) ==
  LET doc == store[r.lid]
      mw == protectListEditAccess(doc, r.cred)
  IN  IF mw # 0 THEN Finish(r, mw, doc)
      ELSE Park(r, [r EXCEPT !.pc = "find"])

\* the handler's result on the document its findOne returned
Handle(r, doc) ==
  CASE r.op = "updateName" -> UpdateListName(doc, r.cred, r.arg.name)
    [] r.op = "deleteList" -> DeleteList(doc, r.cred)
    [] r.op = "addItem" -> AddItem(doc, nextItem, r.arg.text)
    [] r.op = "getList" -> GetList(doc)
    [] r.op = "addCollaborator" -> AddCollaborator(doc, r.cred, r.arg.email)
    [] r.op = "removeCollaborator" -> RemoveCollaborator(doc, r.cred, r.arg.email)
    [] r.op = "setPermission" ->
         UpdatePermission(doc, r.cred, r.arg.email, r.arg.permission)
    [] r.op = "setArchived" -> SetArchived(doc, r.cred, r.arg.flag)

\* the handler's List.findOne and its synchronous code: an early answer, or the
\* document changed in memory and waiting for save() or deleteOne()
FindStep(r) ==
  LET doc == store[r.lid]
      res == Handle(r, doc)
  IN  /\ IF res.status >= 400 \/ r.op = "getList" THEN Finish(r, res.status, doc)
         ELSE Park(r, [r EXCEPT !.pc = IF r.op = "deleteList" THEN "remove" ELSE "save",
                                !.doc = doc, !.upd = res.doc, !.status = res.status])
      /\ nextItem' = IF r.op = "addItem" /\ res.status = 201 THEN nextItem + 1 ELSE nextItem

\* POST /: generateListId() and List.findOne({ listId }) until no list has the id
GenerateStep(r) ==
  \E l \in generateListId(ConcLists) : Park(r, [r EXCEPT !.pc = "insert", !.lid = l])

\* a request arrives and runs up to its second await on the List collection:
\* protect (which reads only the User collection) answers 401 or lets it through
\* to its first findOne.  GET /:listId has no middleware.
Begin(op, cred, lid, arg) ==
  /\ BagCardinality(inflight) < MaxInFlight
  /\ op = "createList" => nextOid + CountAt("insert") <= MaxConcDocs
  /\ LET r == Request(op, cred, lid, arg)
     IN  IF op # "getList" /\ protect(cred) # 0
         THEN /\ Finish(r, 401, IF lid \in ListIds THEN store[lid] ELSE Null)
              /\ UNCHANGED nextItem
         ELSE IF op = "createList" THEN GenerateStep(r) /\ UNCHANGED nextItem
         ELSE IF op \in ItemOps THEN EditAccessStep(r) /\ UNCHANGED nextItem
         ELSE FindStep(r)
  /\ UNCHANGED <<store, nextOid, removed, relay>>

\* the handler's findOne of a request that passed protectListEditAccess
Find(r) ==
  /\ FindStep(r)
  /\ UNCHANGED <<store, nextOid, removed, relay>>

\* the handler of r replaced the collaborators array by another one
\* (filter, or = []); an assignment of an equal array modifies nothing
SetsCollaborators(r) ==
  r.op \in {"removeCollaborator", "setArchived"} /\ r.upd.collaborators # r.doc.collaborators

\* save() sends the version key loaded with the document as a condition of the
\* update: when an array is replaced, and when an element of an array is set by
\* its position
VersionWhere(r) ==
  \/ SetsCollaborators(r)
  \/ r.op = "setPermission" /\ r.upd # r.doc

\* save() increments the version key: when an array is pushed to or replaced
VersionInc(r) ==
  \/ r.op \in {"addItem", "addCollaborator"}
  \/ SetsCollaborators(r)

\* mutant of Write: save() sends the whole document as the handler holds it
Write_WholeDocument(cur, r) == r.upd

\* the update save() sends for the modified paths of r, applied to the stored
\* document cur: a pushed element is appended to the stored array ($push), the
\* other paths are set to the values the handler computed ($set)
Write(cur, r) ==
  CASE r.op = "addItem" ->
         [cur EXCEPT !.items = Append(@, r.upd.items[Len(r.upd.items)])]
    [] r.op = "addCollaborator" ->
         [cur EXCEPT !.collaborators =
            Append(@, r.upd.collaborators[Len(r.upd.collaborators)])]
    [] r.op = "removeCollaborator" ->
         [cur EXCEPT !.collaborators =
            IF SetsCollaborators(r) THEN r.upd.collaborators ELSE @]
    [] r.op = "setPermission" ->
         IF r.upd = r.doc THEN cur
         ELSE LET i == FindCollaborator(r.doc.collaborators, UserByEmail(r.arg.email))
              IN  [cur EXCEPT !.collaborators[i].permission = r.arg.permission]
    [] r.op = "setArchived" ->
         [cur EXCEPT !.archived = r.upd.archived,
                     !.collaborators =
                        IF SetsCollaborators(r) THEN r.upd.collaborators ELSE @]
    [] OTHER -> [cur EXCEPT !.name = r.upd.name]

\* mutant of Persist: save() writes the loaded document back when the store lost it
Persist_Upsert(cur, r) ==
  IF cur.oid # r.doc.oid THEN r.upd
  ELSE IF VersionWhere(r) /\ r.stale THEN Null
  ELSE Write(cur, r)

\* list.save() of a loaded document: the modified paths are sent as an update of
\* the document with that _id; with no modified path save() only checks that the
\* document is still there.  The update matching no document (the document is
\* gone, or its version key is not the loaded one) is an error.  The result is
\* the stored document, or Null for the error.
Persist(cur, r) ==
  IF cur.oid # r.doc.oid THEN Null
  ELSE IF VersionWhere(r) /\ r.stale THEN Null
  ELSE Write(cur, r)

\* request r as it is once the version key of document oid has moved on
Staled(r, oid) == IF r.doc.oid = oid THEN [r EXCEPT !.stale = TRUE] ELSE r

\* the requests of bag B once the version key of document oid has moved on
MarkStale(B, oid) ==
  [x \in {Staled(r, oid) : r \in BagToSet(B)} |->
     BagCardinality([r \in {q \in BagToSet(B) : Staled(q, oid) = x} |-> B[r]])]

\* await list.save(); its error is caught by the handler and answered 500
Save(r) ==
  /\ LET new == Persist(store[r.lid], r)
     IN  IF ~Exists(new)
         THEN /\ Finish(r, 500, r.doc)
              /\ store' = store
         ELSE /\ last' = [op |-> r.op, cred |-> r.cred, lid |-> r.lid, arg |-> r.arg,
                          status |-> r.status, pre |-> r.doc]
              /\ inflight' = IF VersionInc(r) THEN MarkStale(Without(r), r.doc.oid)
                             ELSE Without(r)
              /\ store' = [store EXCEPT ![r.lid] = new]
  /\ UNCHANGED <<nextOid, nextItem, removed, relay>>

\* await list.deleteOne(): deletes the document with the loaded _id, if still there
Remove(r) ==
  /\ Finish(r, 200, r.doc)
  /\ IF store[r.lid].oid = r.doc.oid
     THEN /\ store' = [store EXCEPT ![r.lid] = Null]
          /\ removed' = removed \cup {[lid |-> r.lid, oid |-> r.doc.oid]}
     ELSE UNCHANGED <<store, removed>>
  /\ UNCHANGED <<nextOid, nextItem, relay>>

\* POST /: newList.save(); the unique index on listId rejects a second document
Insert(r) ==
  /\ IF Exists(store[r.lid])
     THEN /\ Finish(r, 500, Null)
          /\ UNCHANGED <<store, nextOid>>
     ELSE /\ Finish(r, 201, Null)
          /\ store' = [store EXCEPT ![r.lid] = NewList(nextOid, r.cred, r.arg.name)]
          /\ nextOid' = nextOid + 1
  /\ UNCHANGED <<nextItem, removed, relay>>

ConcNext ==
  \/ \E cred \in ConcCreds : Begin("createList", cred, "", [name |-> "A"])
  \/ \E cred \in ConcCreds, lid \in ConcLists :
       Begin("updateName", cred, lid, [name |-> "B"])
  \/ \E cred \in ConcCreds \cup {"none"}, lid \in ConcLists :
       Begin("deleteList", cred, lid, [none |-> 0])
  \/ \E lid \in ConcLists : Begin("getList", "none", lid, [none |-> 0])
  \/ \E cred \in ConcCreds, lid \in ConcLists :
       /\ nextItem <= MaxItemIds
       /\ Begin("addItem", cred, lid, [text |-> "x"])
  \/ \E r \in Waiting("find") : Find(r)
  \/ \E r \in Waiting("save") : Save(r)
  \/ \E r \in Waiting("remove") : Remove(r)
  \/ \E r \in Waiting("insert") : Insert(r)

ConcSpec == Init /\ [][ConcNext]_vars

---------------------------------------------------------------------------
(* ReorderSpec: reorder requests for items and for lists whose bodies name  *)
(* any ids, in scope or not, or are no array.                               *)

MaxReorderLists == 2
MaxReorderItems == 2

\* the arrays of no, one or two ids of S: an id in scope alone, one out of scope
\* alone, and the two together in either order
Pairs(S) == {<<>>} \cup {<<a>> : a \in S} \cup {<<a, b>> : a \in S, b \in S}

ReorderItemBodies == {NotArray} \cup {ArrayOf(ids) : ids \in Pairs(KnownItemIds)}

ReorderListBodies == {NotArray} \cup {ArrayOf(ids) : ids \in Pairs({"L1", "L2"})}

ReorderNext ==
  \/ CreateList("u1", "A", NextListId, MaxReorderLists)
  \/ \E lid \in {"L1", "L2"} : PostCollaborator("u1", lid, "u2")
  \/ PostItem("u1", "L1", "x", MaxReorderItems)
  \/ \E body \in ReorderItemBodies : PutItemsReorder("u1", "L1", body)
  \/ \E cred \in ListsCreds : \E body \in ReorderListBodies : ReorderLists(cred, body)

ReorderSpec == Init /\ [][ReorderNext]_vars

---------------------------------------------------------------------------
(* EditorsSpec: two collaborators of one list, given permission edit by the *)
(* owner, whose add-item requests are in flight together.                   *)

MaxEditorItems == 2

Editors == {"u2", "u3"}

EditorsNext ==
  \/ CreateList("u1", "A", ConcLists, 1)
  \/ \E email \in Editors : PostCollaborator("u1", "L1", email)
  \/ \E email \in Editors : PutCollaborator("u1", "L1", email, "edit")
  \/ \E cred \in Editors :
       /\ nextItem + CountAt("find") <= MaxEditorItems
       /\ Begin("addItem", cred, "L1", [text |-> "x"])
  \/ \E r \in Waiting("find") : Find(r)
  \/ \E r \in Waiting("save") : Save(r)

EditorsSpec == Init /\ [][EditorsNext]_vars

---------------------------------------------------------------------------
(* RelaySpec: the realtime channel.  relay.open is the set of connected     *)
(* sockets, relay.rooms[c] the rooms socket c is in, and relay.sent the      *)
(* event the last step emitted, with the sockets it was emitted to;          *)
(* relay.did is the handler that ran last and the rooms it started from.     *)

\* the sockets in room l
InRoom(l) == {c \in relay.open : l \in relay.rooms[c]}

\* the handler that ran last on the channel, for socket c and room l, and the
\* rooms every socket was in when it started
Handled(op, c, l) == [op |-> op, conn |-> c, room |-> l, rooms |-> relay.rooms]

\* mutant of io_to: the event goes to every connected socket
io_to_Everyone(l) == relay.open

\* io.to(listId): every socket in the room
io_to(l) == InRoom(l)

\* socket.to(listId): every socket in the room but the emitting socket c
socket_to(c, l) == InRoom(l) \ {c}

\* the rest of the program is not touched by the channel
RelayOnly == UNCHANGED <<store, nextOid, nextItem, last, removed, inflight>>

\* emit(event, payload) to the sockets of to
Emit(c, event, l, to, payload) ==
  /\ relay' = [relay EXCEPT !.sent = [event |-> event, room |-> l, from |-> c,
                                      to |-> to, payload |-> payload],
                            !.did = Handled(event, c, l)]
  /\ RelayOnly

\* io.on("connection"): a new socket, in no room
connection(c) ==
  /\ c \notin relay.open
  /\ relay' = [relay EXCEPT !.open = @ \cup {c}, !.rooms[c] = {}, !.sent = NoEvent,
                            !.did = Handled("connection", c, "")]
  /\ RelayOnly

\* socket.on("join_list"): socket.join(listId)
join_list(c, l) ==
  /\ c \in relay.open
  /\ relay' = [relay EXCEPT !.rooms[c] = @ \cup {l}, !.sent = NoEvent,
                            !.did = Handled("join_list", c, l)]
  /\ RelayOnly

\* socket.on("leave_list"): socket.leave(listId)
leave_list(c, l) ==
  /\ c \in relay.open
  /\ relay' = [relay EXCEPT !.rooms[c] = @ \ {l}, !.sent = NoEvent,
                            !.did = Handled("leave_list", c, l)]
  /\ RelayOnly

\* socket.on("update_list"): the data without its listId goes to the room,
\* the emitting socket left out
update_list(c, l, changes) ==
  /\ c \in relay.open
  /\ Emit(c, "list_updated", l, socket_to(c, l), [listId |-> Absent, changes |-> changes])

\* socket.on("collaborator_added" / "collaborator_removed" / "permission_changed"):
\* the event is emitted to the room with the listId alone
Announce(c, event, l) ==
  /\ c \in relay.open
  /\ Emit(c, event, l, io_to(l), [listId |-> l, changes |-> Absent])

collaborator_added(c, l) == Announce(c, "collaborator_added", l)

collaborator_removed(c, l) == Announce(c, "collaborator_removed", l)

permission_changed(c, l) == Announce(c, "permission_changed", l)

\* mutant of disconnect: the closed socket stays in its rooms
disconnect_KeepsRooms(c) ==
  /\ c \in relay.open
  /\ relay' = [relay EXCEPT !.open = @ \ {c}, !.sent = NoEvent,
                            !.did = Handled("disconnect", c, "")]
  /\ RelayOnly

\* socket.on("disconnect"): the handler logs; the closed socket is in no room
disconnect(c) ==
  /\ c \in relay.open
  /\ relay' = [relay EXCEPT !.open = @ \ {c}, !.rooms[c] = {}, !.sent = NoEvent,
                            !.did = Handled("disconnect", c, "")]
  /\ RelayOnly

RelayRooms == {"L1", "L2"}

RelayNext ==
  \/ \E c \in Conns : connection(c)
  \/ \E c \in Conns, l \in RelayRooms : join_list(c, l)
  \/ \E c \in Conns, l \in RelayRooms : leave_list(c, l)
  \/ \E c \in Conns, l \in RelayRooms, changes \in Changes : update_list(c, l, changes)
  \/ \E c \in Conns, l \in RelayRooms : collaborator_added(c, l)
  \/ \E c \in Conns, l \in RelayRooms : collaborator_removed(c, l)
  \/ \E c \in Conns, l \in RelayRooms : permission_changed(c, l)
  \/ \E c \in Conns : disconnect(c)

RelaySpec == Init /\ [][RelayNext]_vars

---------------------------------------------------------------------------
(* ChannelSpec: the REST routes and the realtime channel side by side.     *)
(* u1 creates list L1; while a socket is in L1's room u1 adds items and a  *)
(* collaborator; once L1 exists sockets publish for it.                    *)

ChannelNext ==
  \/ CreateList("u1", "A", NextListId, 1)
  \/ /\ InRoom("L1") # {}
     /\ PostItem("u1", "L1", "x", MaxItemIds)
  \/ /\ InRoom("L1") # {}
     /\ PostCollaborator("u1", "L1", "u2")
  \/ \E c \in Conns : connection(c)
  \/ \E c \in Conns : join_list(c, "L1")
  \/ \E c \in Conns : leave_list(c, "L1")
  \/ \E c \in Conns : Exists(store["L1"]) /\ update_list(c, "L1", "a")
  \/ \E c \in Conns : Exists(store["L1"]) /\ collaborator_added(c, "L1")
  \/ \E c \in Conns : disconnect(c)

ChannelSpec == Init /\ [][ChannelNext]_vars

---------------------------------------------------------------------------
(* CollabSpec: the owner's collaborator and archive requests on one list,  *)
(* in flight together.  The list is created first, by one request.         *)

CollabTargets == {"u2"}

CollabNext ==
  \/ CreateList("u1", "A", ConcLists, 1)
  \/ \E email \in CollabTargets : Begin("addCollaborator", "u1", "L1", [email |-> email])
  \/ \E email \in CollabTargets : Begin("removeCollaborator", "u1", "L1", [email |-> email])
  \/ \E email \in CollabTargets, p \in {"view", "edit"} :
       Begin("setPermission", "u1", "L1", [email |-> email, permission |-> p])
  \/ \E f \in {Absent} : Begin("setArchived", "u1", "L1", [flag |-> f])
  \/ \E r \in Waiting("save") : Save(r)

CollabSpec == Init /\ [][CollabNext]_vars

---------------------------------------------------------------------------
(* RevokeSpec: u2, made an edit collaborator of L1 by the owner, adds items *)
(* while the owner's requests that take the access away are in flight.      *)

RevokeNext ==
  \/ CreateList("u1", "A", ConcLists, 1)
  \/ PostCollaborator("u1", "L1", "u2")
  \/ PutCollaborator("u1", "L1", "u2", "edit")
  \/ /\ nextItem + CountAt("find") <= MaxItemIds
     /\ Begin("addItem", "u2", "L1", [text |-> "x"])
  \/ Begin("removeCollaborator", "u1", "L1", [email |-> "u2"])
  \/ Begin("setPermission", "u1", "L1", [email |-> "u2", permission |-> "view"])
  \/ Begin("setArchived", "u1", "L1", [flag |-> "true"])
  \/ \E r \in Waiting("find") : Find(r)
  \/ \E r \in Waiting("save") : Save(r)

RevokeSpec == Init /\ [][RevokeNext]_vars

---------------------------------------------------------------------------
(* RaceSpec: reorders of the lists in flight together, one step per await: *)
(* the List.find that validates the ids, each updateOne of Promise.all in  *)
(* any order, and the List.find of the answer.  u1 owns the lists and      *)
(* shares them with u2 or takes them back in between; a reorder names      *)
(* every list there will be, once.                                         *)

\* lists ever created under RaceSpec
MaxRaceLists == 2

\* PUT /reorder up to its first await and the validation that follows it: the
\* answer 400, or the request waiting with the updateOne calls it has issued,
\* each a list id and the index to set
BeginReorderLists(cred, body) ==
  /\ BagCardinality(inflight) < MaxInFlight
  /\ IF ~body.isArray \/ ~(Range(body.ids) \subseteq VisibleTo(store, cred))
     THEN /\ last' = [op |-> "reorderLists", cred |-> cred, lid |-> "", arg |-> body,
                      status |-> 400, pre |-> Null]
          /\ UNCHANGED inflight
     ELSE /\ inflight' = inflight (+) One([op |-> "reorderLists", cred |-> cred,
                                           arg |-> body, pc |-> "update",
                                           todo |-> {<<body.ids[i], i - 1>> : i \in DOMAIN body.ids}])
          /\ UNCHANGED last
  /\ UNCHANGED <<store, nextOid, nextItem, removed, relay>>

\* List.updateOne({ listId }, { $set: { order: index } }): the document with the
\* list id gets the index, whoever can see it now; no document, no update
UpdateOne(r, u) ==
  /\ u \in r.todo
  /\ store' = IF Exists(store[u[1]]) THEN [store EXCEPT ![u[1]].order = u[2]] ELSE store
  /\ inflight' = (inflight (-) One(r)) (+) One([r EXCEPT !.todo = @ \ {u}])
  /\ UNCHANGED <<nextOid, nextItem, last, removed, relay>>

\* Promise.all has resolved: the List.find of the answer, and res.json
AnswerReorderLists(r) ==
  /\ r.todo = {}
  /\ inflight' = inflight (-) One(r)
  /\ last' = [op |-> "reorderLists", cred |-> r.cred, lid |-> "", arg |-> r.arg,
              status |-> 200, pre |-> Null]
  /\ UNCHANGED <<store, nextOid, nextItem, removed, relay>>

RaceCreds == {"u1", "u2"}

RaceNext ==
  \/ CreateList("u1", "A", NextListId, MaxRaceLists)
  \/ \E lid \in ListIds : Exists(store[lid]) /\ PostCollaborator("u1", lid, "u2")
  \/ \E lid \in ListIds : Exists(store[lid]) /\ DeleteCollaborator("u1", lid, "u2")
  \/ \E cred \in RaceCreds : \E ids \in Perms(VisibleTo(store, cred)) :
       /\ Len(ids) = MaxRaceLists
       /\ BeginReorderLists(cred, ArrayOf(ids))
  \/ \E r \in Waiting("update") : \E u \in r.todo : UpdateOne(r, u)
  \/ \E r \in Waiting("update") : AnswerReorderLists(r)

RaceSpec == Init /\ [][RaceNext]_vars

---------------------------------------------------------------------------
(* Claims checked under Spec.                                              *)


\* the last request named a list that existed, and carried a valid credential
OnExistingList == last.op \in (ItemOps \cup OwnerOps) /\ last.cred \in Users /\ Exists(last.pre)

\* uid is the owner of doc or one of its collaborators with permission edit
OwnerOrEditor(doc, uid) ==
  \/ uid = doc.owner
  \/ \E i \in DOMAIN doc.collaborators :
       doc.collaborators[i].userId = uid /\ doc.collaborators[i].permission = "edit"

IsCollaboratorWith(doc, uid, permission) ==
  \E i \in DOMAIN doc.collaborators :
    doc.collaborators[i].userId = uid /\ doc.collaborators[i].permission = permission

PreItemIds == {last.pre.items[i].itemId : i \in DOMAIN last.pre.items}

\* the body of the last item request is one the handler accepts
ItemBodyAccepted ==
  CASE last.op = "addItem" -> last.arg.text # Absent
    [] last.op = "reorderItems" ->
         last.arg.isArray /\ \A i \in DOMAIN last.arg.ids : last.arg.ids[i] \in PreItemIds
    [] OTHER -> last.arg.itemId \in PreItemIds

TargetRegistered == last.arg.email \in Users
PreCollaboratorIds == {last.pre.collaborators[i].userId : i \in DOMAIN last.pre.collaborators}

\* the body of the last owner-only request is one the handler accepts
OwnerBodyAccepted ==
  CASE last.op = "addCollaborator" ->
         /\ TargetRegistered
         /\ last.arg.email \notin PreCollaboratorIds
         /\ last.arg.email # last.pre.owner
    [] last.op = "removeCollaborator" -> TargetRegistered
    [] last.op = "setPermission" ->
         last.arg.email \in PreCollaboratorIds /\ last.arg.permission \in {"view", "edit"}
    [] OTHER -> TRUE

\* what the last owner-only request, once accepted, has done to the list
OwnerOpApplied ==
  LET now == store[last.lid]
  IN  CASE last.op = "deleteList" -> ~Exists(now)
        [] last.op = "updateName" ->
             now.name = IF last.arg.name = Absent THEN last.pre.name ELSE last.arg.name
        [] last.op = "addCollaborator" ->
             IsCollaboratorWith(now, last.arg.email, "view")
        [] last.op = "removeCollaborator" ->
             \A i \in DOMAIN now.collaborators : now.collaborators[i].userId # last.arg.email
        [] last.op = "setPermission" ->
             IsCollaboratorWith(now, last.arg.email, last.arg.permission)
        [] last.op = "setArchived" ->
             now.archived = IF last.arg.flag = Absent THEN ~last.pre.archived
                            ELSE last.arg.flag = "true"
        [] last.op = "setPinned" ->
             now.pinned = IF last.arg.flag = Absent THEN ~last.pre.pinned
                          ELSE last.arg.flag = "true"

Archived(doc) == Exists(doc) /\ doc.archived
HasCollaborators(doc) == Exists(doc) /\ doc.collaborators # <<>>

\* C3 as claimed: in every reachable state an archived list has no collaborators
C3_ArchivedHasNoCollaborators ==
  \A l \in ListIds : Archived(store[l]) => ~HasCollaborators(store[l])

\* C3 as amended: a successful setArchived that leaves the list archived leaves it
\* without collaborators, and an archived list comes to hold collaborators only
\* by a successful addCollaborator, which is not refused on an archived list.
C3_ArchivedUntilCollaboratorAdded ==
  [][\A l \in ListIds :
       /\ (last'.op = "setArchived" /\ last'.lid = l /\ last'.status = 200
             /\ Archived(store'[l]))
            => ~HasCollaborators(store'[l])
       /\ (Archived(store'[l]) /\ HasCollaborators(store'[l])
             /\ ~(Archived(store[l]) /\ HasCollaborators(store[l])))
            => (last'.op = "addCollaborator" /\ last'.lid = l /\ last'.status = 200)
    ]_vars

\* the owner's setArchived(true) has evicted the collaborators of a list
C3_Witness ==
  /\ last.op = "setArchived" /\ last.status = 200 /\ last.arg.flag = "true"
  /\ HasCollaborators(last.pre) /\ ~last.pre.archived
  /\ Archived(store[last.lid]) /\ ~HasCollaborators(store[last.lid])

\* C4: a successful setArchived to true leaves archived=true and no collaborators;
\* a successful setArchived to false leaves the collaborators as they were (none
\* is restored); a list without collaborators gets one only by a successful
\* addCollaborator.
C4_EvictedUntilAdded ==
  [][\A l \in ListIds :
       /\ (last'.op = "setArchived" /\ last'.lid = l /\ last'.status = 200) =>
            IF store'[l].archived
            THEN store'[l].collaborators = <<>>
            ELSE store'[l].collaborators = store[l].collaborators
       /\ (Exists(store[l]) /\ ~HasCollaborators(store[l]) /\ HasCollaborators(store'[l]))
            => (last'.op = "addCollaborator" /\ last'.lid = l /\ last'.status = 200)
    ]_vars

\* the owner has unarchived an archived list, and it still has no collaborators
C4_Witness ==
  /\ last.op = "setArchived" /\ last.status = 200
  /\ Archived(last.pre) /\ ~HasCollaborators(last.pre)
  /\ ~Archived(store[last.lid]) /\ ~HasCollaborators(store[last.lid])

\* C7 as claimed: the owner's removeCollaborator of a user who is not a
\* collaborator of the list is answered 404 and leaves the list unchanged
C7_RemoveAbsentIsNotFound ==
  (/\ OnExistingList /\ last.op = "removeCollaborator"
   /\ last.cred = last.pre.owner
   /\ last.arg.email \notin PreCollaboratorIds)
    => last.status = 404 /\ store[last.lid] = last.pre

C10_NoCredentialIs401 ==
  [][(last'.op \notin {"none", "getList"} /\ last'.cred \notin Users)
       => last'.status = 401 /\ store' = store]_vars

\* a delete of an existing list without a credential was answered 401
C10_Witness ==
  /\ last.op = "deleteList" /\ last.cred = "none" /\ last.status = 401
  /\ Exists(last.pre) /\ store[last.lid] = last.pre

\* the permission uid holds on doc as a collaborator, "none" when it holds none
\* the last answered request named a list: last.pre is the document its handler
\* loaded and store[last.lid] the document it left
OnList == last.op # "none" /\ last.lid \in ListIds

PermissionOf(doc, uid) ==
  IF Exists(doc) /\ FindCollaborator(doc.collaborators, uid) # 0
  THEN doc.collaborators[FindCollaborator(doc.collaborators, uid)].permission
  ELSE "none"

C12_RevokedIsRefused ==
  /\ (last.op = "removeCollaborator" /\ last.status = 200) =>
       PermissionOf(store[last.lid], UserByEmail(last.arg.email)) = "none"
  /\ (last.op = "setPermission" /\ last.status = 200 /\ last.arg.permission = "view") =>
       PermissionOf(store[last.lid], UserByEmail(last.arg.email)) = "view"
  /\ (last.op \in ItemOps /\ last.cred \in Users /\ Exists(last.pre)
        /\ last.cred # last.pre.owner
        /\ PermissionOf(last.pre, last.cred) # "edit") =>
       last.status = 403 /\ store[last.lid] = last.pre
  /\ OnList =>
       \A x \in Users :
         (PermissionOf(last.pre, x) # "edit" /\ PermissionOf(store[last.lid], x) = "edit") =>
            /\ last.op = "setPermission" /\ last.status = 200
            /\ last.cred = last.pre.owner

\* the owner has removed a collaborator who held permission edit
C12_Witness ==
  /\ last.op = "removeCollaborator" /\ last.status = 200
  /\ PermissionOf(last.pre, UserByEmail(last.arg.email)) = "edit"
  /\ PermissionOf(store[last.lid], UserByEmail(last.arg.email)) = "none"

\* C13: in every state no list has its owner among its collaborators, and the
\* owner's addCollaborator that names the owner is answered 400 and changes nothing.
C13_OwnerIsNoCollaborator ==
  /\ \A l \in ListIds :
       Exists(store[l]) => store[l].owner \notin CollabIdsOf(store[l].collaborators)
  /\ (/\ OnExistingList /\ last.op = "addCollaborator"
      /\ last.cred = last.pre.owner
      /\ UserByEmail(last.arg.email) = last.pre.owner)
       => last.status = 400 /\ store[last.lid] = last.pre

\* the owner of a list that has a collaborator named themselves and got 400
C13_Witness ==
  /\ OnExistingList /\ last.op = "addCollaborator" /\ last.status = 400
  /\ last.cred = last.pre.owner /\ UserByEmail(last.arg.email) = last.pre.owner
  /\ last.pre.collaborators # <<>>

\* the number of entries of collabs that name uid
TimesIn(collabs, uid) == Cardinality({i \in DOMAIN collabs : collabs[i].userId = uid})

\* C15: the owner's addCollaborator on an existing list fails, the list left as
\* it was, in exactly three cases: no user has the email (404), the user is a
\* collaborator already (400), the user is the owner (400).  In every other
\* case it is answered 200 and the user is appended once, with permission view,
\* the other entries kept.
C15_AddCollaboratorOutcomes ==
  (OnExistingList /\ last.op = "addCollaborator" /\ last.cred = last.pre.owner) =>
    LET target == UserByEmail(last.arg.email)
        before == last.pre.collaborators
        after  == store[last.lid].collaborators
    IN  CASE target \notin Users ->
               last.status = 404 /\ store[last.lid] = last.pre
          [] target \in Users /\ target \in CollabIdsOf(before) ->
               last.status = 400 /\ store[last.lid] = last.pre
          [] target \in Users /\ target \notin CollabIdsOf(before)
               /\ target = last.pre.owner ->
               last.status = 400 /\ store[last.lid] = last.pre
          [] OTHER ->
               /\ last.status = 200
               /\ after = Append(before, [userId |-> target, permission |-> "view"])
               /\ TimesIn(after, target) = 1
               /\ store[last.lid] = [last.pre EXCEPT !.collaborators = after]

C15_Witness ==
  /\ OnExistingList /\ last.op = "addCollaborator" /\ last.cred = last.pre.owner
  /\ last.status = 200
  /\ TimesIn(last.pre.collaborators, UserByEmail(last.arg.email)) = 0
  /\ TimesIn(store[last.lid].collaborators, UserByEmail(last.arg.email)) = 1
  /\ last.pre.name # DefaultName

\* the value of flag op ("setArchived", "setPinned") in document doc
FlagOf(op, doc) == IF op = "setArchived" THEN doc.archived ELSE doc.pinned

\* C17: a setArchived or setPinned request of the owner that supplies a boolean
\* sets the flag to it; one that supplies none sets the flag to the opposite of
\* what it was; after two such requests in a row for the same flag of the same
\* list the flag is what it was before the first.
C17_FlagSetOrToggled ==
  [][ (last'.op \in {"setArchived", "setPinned"} /\ last'.status = 200) =>
        LET l == last'.lid
            op == last'.op
        IN  /\ last'.arg.flag # Absent => FlagOf(op, store'[l]) = (last'.arg.flag = "true")
            /\ last'.arg.flag = Absent => FlagOf(op, store'[l]) = ~FlagOf(op, store[l])
            /\ (/\ last'.arg.flag = Absent
                /\ last.op = op /\ last.lid = l /\ last.status = 200
                /\ last.arg.flag = Absent /\ last' # last)
               => FlagOf(op, store'[l]) = FlagOf(op, last.pre)
    ]_vars

C17_Witness ==
  /\ last.op = "setPinned" /\ last.status = 200 /\ last.arg.flag = Absent
  /\ last.pre.pinned /\ ~store[last.lid].pinned
  /\ store[last.lid].archived

\* C18: a request for one list is answered 200 when the list exists, whoever
\* asks (no credential, a registered user who is no collaborator, a view or an
\* edit collaborator, the owner) and whatever the list's flags, collaborators
\* and items are; it is answered 404 only when no list has the id.
C18_GetListIsOpen ==
  last.op = "getList" =>
    /\ Exists(store[last.lid]) => last.status = 200
    /\ ~Exists(store[last.lid]) => last.status = 404

C18_Witness ==
  /\ last.op = "getList" /\ last.status = 200
  /\ last.cred = "u2" /\ PermissionOf(store[last.lid], "u2") = "view"
  /\ store[last.lid].pinned

C18_WitnessAnonymous ==
  /\ last.op = "getList" /\ last.status = 200
  /\ last.cred = "none" /\ store[last.lid].archived

\* the existing lists of st that uid owns or is named in as a collaborator
OwnedOrShared(st, uid) ==
  {l \in ListIds : Exists(st[l]) /\ (st[l].owner = uid \/ TimesIn(st[l].collaborators, uid) > 0)}

\* C19: the list of all lists returned to an authenticated caller holds, once
\* each, exactly the existing lists the caller owns or is a collaborator of; and
\* once the owner's archive request is answered, no user but the owner has the
\* list among theirs.
C19_ListAllIsOwnedOrShared ==
  /\ (last.op = "getAllLists" /\ last.cred \in Users) =>
       /\ last.status = 200
       /\ Range(last.arg.lists) = OwnedOrShared(store, last.cred)
       /\ Len(last.arg.lists) = Cardinality(OwnedOrShared(store, last.cred))
  /\ (last.op = "setArchived" /\ last.status = 200 /\ store[last.lid].archived) =>
       \A x \in Users \ {store[last.lid].owner} : last.lid \notin OwnedOrShared(store, x)

C19_Witness ==
  /\ last.op = "getAllLists" /\ last.status = 200 /\ last.cred = "u2"
  /\ last.arg.lists = <<"L1">>
  /\ store["L1"].owner = "u1"

\* a user the list was shared with reads their lists after the list was archived
C19_WitnessArchived ==
  /\ last.op = "getAllLists" /\ last.status = 200 /\ last.cred = "u2"
  /\ last.arg.lists = <<>>
  /\ Exists(store["L1"]) /\ store["L1"].archived

\* the last request is an add, update or delete of an item that names what it
\* needs: a text to add, an item the list holds to update or delete
WellFormedItemMutation ==
  /\ last.op \in {"addItem", "updateItem", "deleteItem"} /\ Exists(last.pre)
  /\ last.op = "addItem" => last.arg.text # Absent
  /\ last.op # "addItem" => FindItem(last.pre.items, last.arg.itemId) # 0

\* the status of a successful item mutation
ItemSuccess == IF last.op = "addItem" THEN 201 ELSE 200

C30_InvalidPermissionIsRefused ==
  /\ (OnExistingList /\ last.op = "setPermission" /\ last.cred = last.pre.owner) =>
       /\ last.arg.permission \notin {"view", "edit"} =>
            last.status = 400 /\ store[last.lid] = last.pre
       /\ (/\ last.arg.permission \in {"view", "edit"}
           /\ TimesIn(last.pre.collaborators, UserByEmail(last.arg.email)) = 0) =>
            last.status = 404 /\ store[last.lid] = last.pre
  /\ \A l \in ListIds : Exists(store[l]) =>
       \A i \in DOMAIN store[l].collaborators :
         store[l].collaborators[i].permission \in {"view", "edit"}

\* C30 amended: a setPermission of the owner that names a user who is no
\* collaborator is answered 404 whatever the permission; one that names a
\* collaborator with a permission other than view and edit is answered 400; both
\* store nothing; one that names a collaborator with view or edit is answered
\* 200 and stores that permission.  Every stored collaborator entry has
\* permission view or edit.
C30_PermissionIsViewOrEdit ==
  /\ (OnExistingList /\ last.op = "setPermission" /\ last.cred = last.pre.owner) =>
       LET target == UserByEmail(last.arg.email)
       IN  IF TimesIn(last.pre.collaborators, target) = 0
           THEN last.status = 404 /\ store[last.lid] = last.pre
           ELSE IF last.arg.permission \notin {"view", "edit"}
           THEN last.status = 400 /\ store[last.lid] = last.pre
           ELSE /\ last.status = 200
                /\ PermissionOf(store[last.lid], target) = last.arg.permission
  /\ \A l \in ListIds : Exists(store[l]) =>
       \A i \in DOMAIN store[l].collaborators :
         store[l].collaborators[i].permission \in {"view", "edit"}

\* the owner asked for a permission that does not exist, for an edit collaborator
C30_Witness ==
  /\ OnExistingList /\ last.op = "setPermission" /\ last.cred = last.pre.owner
  /\ last.status = 400 /\ last.arg.permission = "admin"
  /\ PermissionOf(store[last.lid], UserByEmail(last.arg.email)) = "edit"

\* the statuses that refuse a request: bad input, no credential, no right, no target
Refusals == {400, 401, 403, 404}

\* C31: a request that is answered 400, 401, 403 or 404 leaves every persisted
\* list, and the record of deleted documents, as they were before the request.
C31_RefusedChangesNothing ==
  [][last'.status \in Refusals => store' = store /\ removed' = removed]_vars

\* a delete by a user who does not own the list was refused with 403 and the
\* list is still there as it was
C31_Witness ==
  /\ OnExistingList /\ last.op = "deleteList" /\ last.cred \in Users
  /\ last.cred # last.pre.owner /\ last.status = 403
  /\ Exists(store[last.lid]) /\ store[last.lid] = last.pre

\* C32: a successful setPinned leaves the list as it was but for pinned (its
\* archived flag, collaborators, items and name stay); a successful setArchived
\* leaves it as it was but for archived and collaborators (its pinned flag,
\* items and name stay).
C32_FlagsAreIndependent ==
  /\ (last.op = "setPinned" /\ last.status = 200) =>
       store[last.lid] = [last.pre EXCEPT !.pinned = store[last.lid].pinned]
  /\ (last.op = "setArchived" /\ last.status = 200) =>
       store[last.lid] = [last.pre EXCEPT !.archived = store[last.lid].archived,
                                          !.collaborators = store[last.lid].collaborators]

\* a pinned list that holds an item was archived and is now archived and pinned
C32_Witness ==
  /\ last.op = "setArchived" /\ last.status = 200
  /\ last.pre.pinned /\ ~last.pre.archived /\ last.pre.items # <<>>
  /\ store[last.lid].archived /\ store[last.lid].pinned

\* an archived list was pinned and is now archived and pinned
C32_WitnessPinned ==
  /\ last.op = "setPinned" /\ last.status = 200
  /\ last.pre.archived /\ ~last.pre.pinned
  /\ store[last.lid].archived /\ store[last.lid].pinned

\* the bodies a request on a list can carry, one field for each route: such as
\* the routes accept, and with nothing in them
RouteArgs ==
  {[name |-> "B", email |-> "u2", permission |-> "edit", flag |-> "true", text |-> "x",
    body |-> ArrayOf(<<1>>), itemId |-> 1, completed |-> "true"],
   [name |-> Absent, email |-> "nobody", permission |-> "admin", flag |-> Absent,
    text |-> Absent, body |-> NotArray, itemId |-> 1, completed |-> Absent]}

\* what the route of op answers user uid, on document doc, for the body a
Route(op, doc, uid, a) ==
  CASE op = "updateName" -> UpdateListName(doc, uid, a.name)
    [] op = "deleteList" -> DeleteList(doc, uid)
    [] op = "addCollaborator" -> AddCollaborator(doc, uid, a.email)
    [] op = "removeCollaborator" -> RemoveCollaborator(doc, uid, a.email)
    [] op = "setPermission" -> UpdatePermission(doc, uid, a.email, a.permission)
    [] op = "setArchived" -> SetArchived(doc, uid, a.flag)
    [] op = "setPinned" -> SetPinned(doc, uid, a.flag)
    [] op = "addItem" -> Guarded(doc, uid, AddItem(doc, nextItem, a.text))
    [] op = "reorderItems" -> Guarded(doc, uid, ReorderItems(doc, a.body))
    [] op = "updateItem" -> Guarded(doc, uid, UpdateItem(doc, a.itemId, a.text, a.completed))
    [] op = "deleteItem" -> Guarded(doc, uid, DeleteItem(doc, a.itemId))

\* the message of the one 403 answer each route has
DenialMessage(op) ==
  CASE op \in ItemOps -> "Not authorized to edit this list"
    [] op = "updateName" -> "Not authorized to update this list"
    [] op = "deleteList" -> "Not authorized to delete this list"
    [] op = "addCollaborator" -> "Not authorized to add collaborators"
    [] op = "removeCollaborator" -> "Not authorized to remove collaborators"
    [] op = "setPermission" -> "Not authorized to update permissions"
    [] op = "setArchived" -> "Not authorized to archive this list"
    [] op = "setPinned" -> "Not authorized to pin this list"

\* the status and, for a 403, the message of the answer
Response(op, doc, uid, a) ==
  LET status == Route(op, doc, uid, a).status
  IN  [status |-> status, message |-> IF status = 403 THEN DenialMessage(op) ELSE ""]

\* the users the route of op is closed to on document doc: for an item route
\* whoever is neither the owner nor a collaborator with permission edit, for an
\* owner route whoever is not the owner
DeniedActors(op, doc) ==
  {u \in Users : u # doc.owner /\ (op \in OwnerOps \/ PermissionOf(doc, u) # "edit")}

\* C37: on every existing list, for every route on one list and every body, any
\* two users the route is closed to (a collaborator with permission view, one
\* with permission edit on an owner route, a user who is not on the list) get the
\* same status and the same message.
C37_DenialsLookAlike ==
  \A l \in SpecLists : Exists(store[l]) =>
    \A op \in ItemOps \cup OwnerOps, a \in RouteArgs :
      LET denied == DeniedActors(op, store[l])
          one == CHOOSE u \in denied : TRUE
      IN  \A u \in denied : Response(op, store[l], u, a) = Response(op, store[l], one, a)

\* u2, a collaborator with permission edit, was refused on an owner route of a
\* list that u3 is not on
C37_Witness ==
  /\ OnExistingList /\ last.op \in OwnerOps /\ last.cred = "u2" /\ last.status = 403
  /\ PermissionOf(store[last.lid], "u2") = "edit"
  /\ PermissionOf(store[last.lid], "u3") = "none"

\* u2, a collaborator with permission view, was refused on an item route
C37_WitnessView ==
  /\ OnExistingList /\ last.op \in ItemOps /\ last.cred = "u2" /\ last.status = 403
  /\ PermissionOf(store[last.lid], "u2") = "view"
  /\ PermissionOf(store[last.lid], "u3") = "none"

---------------------------------------------------------------------------
(* Claims under ListsSpec.                                                 *)

\* the last request was a reorder of items that the handler accepted and whose
\* itemIds name every item of the list exactly once
FullItemPermutation ==
  /\ last.op = "reorderItems" /\ last.status = 200 /\ last.arg.isArray
  /\ Len(last.arg.ids) = Len(last.pre.items)
  /\ Range(last.arg.ids) = PreItemIds

\* the last request was a reorder of lists that the handler accepted and whose
\* listIds name every list visible to the caller exactly once
FullListPermutation ==
  /\ last.op = "reorderLists" /\ last.status = 200 /\ last.arg.isArray
  /\ Len(last.arg.ids) = Cardinality(VisibleTo(store, last.cred))
  /\ Range(last.arg.ids) = VisibleTo(store, last.cred)

\* C5: after a reorder whose ids are a full permutation of the current ids, the
\* list's items (resp. the caller's lists, as GET / sorts them) read back in
\* exactly the order asked for, with order values 0..n-1.
C5_FullPermutationReadBack ==
  /\ FullItemPermutation =>
       /\ ItemIdsOf(store[last.lid].items) = last.arg.ids
       /\ \A i \in DOMAIN store[last.lid].items : store[last.lid].items[i].order = i - 1
  /\ FullListPermutation =>
       /\ ReadAll(store, last.cred) = {last.arg.ids}
       /\ \A i \in DOMAIN last.arg.ids : store[last.arg.ids[i]].order = i - 1

\* two items stored as <<a, b>> were reordered to <<b, a>> and read back so
C5_Witness ==
  /\ FullItemPermutation /\ Len(last.arg.ids) = 2
  /\ ItemIdsOf(last.pre.items) = <<last.arg.ids[2], last.arg.ids[1]>>
  /\ ItemIdsOf(store[last.lid].items) = last.arg.ids

\* C22 as claimed: no request of a user who is a view collaborator of a list,
\* and not its owner, changes any stored field of that list (name, items, item
\* order, collaborators, archived, pinned, the list's own order).
C22_ViewChangesNothing ==
  [][ \A l \in ListIds :
        (/\ Exists(store[l]) /\ store[l].owner # last'.cred
         /\ PermissionOf(store[l], last'.cred) = "view")
        => store'[l] = store[l]
    ]_vars

---------------------------------------------------------------------------
(* Claims under OrderSpec.                                                 *)

\* the ids of s that are not in named, in the order of s
Unnamed(s, named) == SeqFilter(s, Range(s) \ named)

\* C6 as claimed: after a reorder whose itemIds are a non-empty strict subset of
\* the list's item ids, the items not named are stored in the same relative
\* order as before the request.
C6_UnnamedKeepRelativeOrder ==
  (/\ last.op = "reorderItems" /\ last.status = 200 /\ last.arg.isArray
   /\ last.arg.ids # <<>>
   /\ Range(last.arg.ids) \subseteq PreItemIds /\ Range(last.arg.ids) # PreItemIds)
    => Unnamed(ItemIdsOf(store[last.lid].items), Range(last.arg.ids))
         = Unnamed(ItemIdsOf(last.pre.items), Range(last.arg.ids))

\* C40 as claimed: in every state the items of every list are stored in
\* non-decreasing order value, whatever adds, deletes and reorders came before.
C40_ItemsStoredInOrder ==
  \A l \in ListIds : Exists(store[l]) =>
    \A i, j \in DOMAIN store[l].items :
      i < j => store[l].items[i].order <= store[l].items[j].order

---------------------------------------------------------------------------
(* Claims under ReorderSpec.                                               *)

\* C16: a reorder of the items of a list, or of the caller's lists, whose body
\* is no array or names an id that is not in scope (an item the list does not
\* hold; a list the caller neither owns nor collaborates on) is answered 400 and
\* changes no order and no sequence, the ids of the body that are in scope
\* included.
C16_InvalidReorderChangesNothing ==
  [][ /\ (/\ last'.op = "reorderItems"
          /\ Exists(store[last'.lid]) /\ hasEditAccess(store[last'.lid], last'.cred)
          /\ \/ ~last'.arg.isArray
             \/ ~(Range(last'.arg.ids) \subseteq ItemIdsIn(last'.lid)))
         => last'.status = 400 /\ store' = store
      /\ (/\ last'.op = "reorderLists" /\ last'.cred \in Users
          /\ \/ ~last'.arg.isArray
             \/ ~(Range(last'.arg.ids) \subseteq VisibleTo(store, last'.cred)))
         => last'.status = 400 /\ store' = store
    ]_vars

\* a refused body that names an id in scope next to one that is not, of a list
\* other than the first of the caller's lists
C16_Witness ==
  /\ last.op = "reorderLists" /\ last.status = 400 /\ last.arg.isArray
  /\ Range(last.arg.ids) \cap VisibleTo(store, last.cred) # {}
  /\ Range(last.arg.ids) \ VisibleTo(store, last.cred) # {}
  /\ \E l \in Range(last.arg.ids) \cap VisibleTo(store, last.cred) : store[l].order # 0

C16_WitnessItems ==
  /\ last.op = "reorderItems" /\ last.status = 400 /\ last.arg.isArray
  /\ Range(last.arg.ids) \cap ItemIdsIn(last.lid) # {}
  /\ Range(last.arg.ids) \ ItemIdsIn(last.lid) # {}
  /\ Len(store[last.lid].items) > 1

\* C23: a create request of an authenticated caller is answered 201 and stores,
\* under an id no list had, a list owned by the caller with no items, no
\* collaborators, archived = FALSE and pinned = FALSE; every other list is left
\* as it was.
C23_CreateStoresEmptyList ==
  [][ (last'.op = "createList" /\ last'.cred \in Users) =>
        /\ last'.status = 201
        /\ last'.lid \in ListIds /\ ~Exists(store[last'.lid])
        /\ LET new == store'[last'.lid]
           IN  /\ Exists(new) /\ new.owner = last'.cred
               /\ new.items = <<>> /\ new.collaborators = <<>>
               /\ new.archived = FALSE /\ new.pinned = FALSE
               /\ new.name = last'.arg.name
        /\ \A l \in ListIds \ {last'.lid} : store'[l] = store[l]
    ]_vars

\* a list was created next to one that has items and a collaborator
C23_Witness ==
  /\ last.op = "createList" /\ last.status = 201 /\ Exists(store[last.lid])
  /\ \E l \in ListIds \ {last.lid} :
       Exists(store[l]) /\ store[l].items # <<>> /\ store[l].collaborators # <<>>

\* an item but for its order
Unordered(it) == [it EXCEPT !.order = 0]

\* C27: a successful reorder gives each entity it names (item of the list; list
\* of the caller) the 0-based position at which the body names it as its order,
\* and leaves every entity it does not name with the order it had; nothing else
\* of an entity changes, and the orders are not renumbered afterwards, so equal
\* or gapped orders stay.
C27_ReorderAssignsPositions ==
  [][ /\ (last'.op = "reorderItems" /\ last'.status = 200) =>
           LET ids == last'.arg.ids
               before == store[last'.lid].items
               after == store'[last'.lid].items
           IN  /\ Len(after) = Len(before)
               /\ {Unordered(it) : it \in Range(after)} = {Unordered(it) : it \in Range(before)}
               /\ \A it \in Range(after) :
                    IF it.itemId \in Range(ids)
                    THEN \E k \in DOMAIN ids : ids[k] = it.itemId /\ it.order = k - 1
                    ELSE it \in Range(before)
      /\ (last'.op = "reorderLists" /\ last'.status = 200) =>
           LET ids == last'.arg.ids
           IN  \A l \in ListIds :
                 IF l \in Range(ids)
                 THEN \E k \in DOMAIN ids :
                        ids[k] = l /\ store'[l] = [store[l] EXCEPT !.order = k - 1]
                 ELSE store'[l] = store[l]
    ]_vars

\* a reorder that named one of two items has left both with the same order
C27_Witness ==
  /\ last.op = "reorderItems" /\ last.status = 200 /\ Len(last.arg.ids) = 1
  /\ Len(store[last.lid].items) = 2
  /\ store[last.lid].items[1].order = store[last.lid].items[2].order

---------------------------------------------------------------------------
(* Claims under EditorsSpec.                                               *)

\* the ids of the items whose add-item request has not been answered yet
PendingItemIds == {r.upd.items[Len(r.upd.items)].itemId : r \in Waiting("save")}

\* C25: when add-item requests of two edit collaborators of a list are in flight
\* together, each is answered 201 and the list then holds the item of every
\* answered request, once: no answered add is lost to the other.
C25_ConcurrentAddsAreKept ==
  /\ (last.op = "addItem" /\ PermissionOf(last.pre, last.cred) = "edit") => last.status = 201
  /\ Exists(store["L1"]) =>
       /\ ItemIdsIn("L1") = (1..(nextItem - 1)) \ PendingItemIds
       /\ Len(store["L1"].items) = Cardinality(ItemIdsIn("L1"))

\* both editors loaded the empty list, and both their items are stored
C25_Witness ==
  /\ last.op = "addItem" /\ last.status = 201 /\ last.pre.items = <<>>
  /\ Len(store["L1"].items) = 2
  /\ PermissionOf(store["L1"], "u2") = "edit" /\ PermissionOf(store["L1"], "u3") = "edit"

---------------------------------------------------------------------------
(* Claims under RevokeSpec.                                                *)

\* C38 as claimed: when an add-item request is answered 201, the user who made
\* it is the owner or a collaborator with permission edit of the list as it is
\* stored with the item, whatever requests of the owner were in flight with it.
C38_StoredOnlyWithEditAccess ==
  (last.op = "addItem" /\ last.status = 201) => OwnerOrEditor(store[last.lid], last.cred)

---------------------------------------------------------------------------
(* Claims under RaceSpec.                                                  *)

\* C39 as claimed: once the reorders of the lists in flight, each with a body
\* that names every list once, have all been answered, the lists have the order
\* values 0..n-1, one each, as they do after one of the reorders alone.
C39_ReorderListsIsOneUnit ==
  (inflight = EmptyBag /\ last.op = "reorderLists" /\ last.status = 200) =>
    \A i \in DOMAIN last.arg.ids :
      \E l \in Range(last.arg.ids) : store[l].order = i - 1

\* C39, its second part as claimed: an updateOne of a reorder changes the order
\* of no list that its caller can no longer see.
C39_HiddenListKeepsOrder ==
  [][\A r \in Waiting("update") : \A l \in ListIds :
       (/\ Exists(store[l]) /\ store'[l].order # store[l].order
        /\ <<l, store'[l].order>> \in r.todo
        /\ inflight' = (inflight (-) One(r)) (+)
                          One([r EXCEPT !.todo = @ \ {<<l, store'[l].order>>}]))
         => l \in VisibleTo(store, r.cred)]_vars

---------------------------------------------------------------------------
(* Claims under RelaySpec.                                                 *)

\* C20 as claimed: an event of the catalog published for a list is emitted to
\* every connection that is in the list's room at that moment, the publishing
\* connection included when it is in the room.
C20_DeliveredToEveryMember ==
  relay.sent.event \in {"collaborator_added", "collaborator_removed",
                        "permission_changed", "list_updated"}
    => relay.sent.to = {c \in relay.open : relay.sent.room \in relay.rooms[c]}

\* C21: an event published for a list is emitted to no connection that is not
\* in the list's room at that moment, whatever other rooms the connection is
\* in and whatever it joined and left before.
C21_OnlyMembersReceive ==
  \A c \in relay.sent.to : c \in relay.open /\ relay.sent.room \in relay.rooms[c]

\* an event reached a member of its room while another connection, in another
\* room only, got nothing
C21_Witness ==
  /\ relay.sent.event # "none" /\ relay.sent.to # {}
  /\ \E c \in relay.open \ relay.sent.to :
       relay.rooms[c] # {} /\ relay.sent.room \notin relay.rooms[c]

\* the handlers that publish an event
Published == {"list_updated", "collaborator_added", "collaborator_removed",
              "permission_changed"}

\* C34: after every handler of the channel a connection is in the room of a
\* list exactly if the handler was its join of that list, or it was in the room
\* before and the handler was neither its leave of that list nor its disconnect;
\* a closed connection is in no room; and an event published for a list goes to
\* no connection that was outside the list's room when it was published.
C34_MembershipFollowsJoinLeaveClose ==
  /\ \A c \in Conns, l \in RelayRooms :
       l \in relay.rooms[c] <=>
         \/ relay.did.op = "join_list" /\ relay.did.conn = c /\ relay.did.room = l
         \/ /\ l \in relay.did.rooms[c]
            /\ ~(relay.did.op = "leave_list" /\ relay.did.conn = c /\ relay.did.room = l)
            /\ ~(relay.did.op = "disconnect" /\ relay.did.conn = c)
  /\ \A c \in Conns \ relay.open : relay.rooms[c] = {}
  /\ relay.did.op \in Published =>
       /\ relay.rooms = relay.did.rooms
       /\ \A c \in relay.sent.to : relay.did.room \in relay.did.rooms[c]

\* a connection that was in two rooms closed and is in none, while the other
\* connection stays in its room
C34_Witness ==
  /\ relay.did.op = "disconnect"
  /\ relay.did.rooms[relay.did.conn] = RelayRooms
  /\ relay.rooms[relay.did.conn] = {}
  /\ \E c \in relay.open : relay.rooms[c] # {}

\* a connection left one of its two rooms and is still in the other
C34_WitnessLeave ==
  /\ relay.did.op = "leave_list"
  /\ relay.did.rooms[relay.did.conn] = RelayRooms
  /\ relay.rooms[relay.did.conn] = RelayRooms \ {relay.did.room}

---------------------------------------------------------------------------
(* Claims under ChannelSpec.                                               *)

\* C35: a step that changes the channel (a connection, a join, a leave, a
\* publish, a disconnect) changes no persisted list and answers no request; a
\* step that answers a request or changes a list changes nothing of the channel,
\* so it emits no event; and an event is emitted only by the publish handler of
\* an open connection.
C35_RelayAndStoreIndependent ==
  [][ /\ relay' # relay => UNCHANGED <<store, removed, last, nextOid, nextItem>>
      /\ (store' # store \/ last' # last) => relay' = relay
      /\ (relay'.sent # relay.sent /\ relay'.sent.event # "none") =>
           /\ relay'.did.op \in Published /\ relay'.did.op = relay'.sent.event
           /\ relay'.did.conn \in relay.open /\ relay'.sent.from = relay'.did.conn
    ]_vars

\* u1 added an item while a socket was in the list's room, and nothing was
\* emitted
C35_Witness ==
  /\ last.op = "addItem" /\ last.status = 201
  /\ InRoom("L1") # {} /\ relay.sent = NoEvent

\* a socket published for the list that holds an item, to another socket
C35_WitnessPublish ==
  /\ relay.did.op = "list_updated" /\ relay.sent.to # {}
  /\ Exists(store["L1"]) /\ store["L1"].items # <<>> /\ last.op = "addItem"

---------------------------------------------------------------------------
(* Claims under CollabSpec.                                                *)

\* C14 as claimed: in every state, under every interleaving of the owner's
\* collaborator and archive requests, no user appears twice among a list's
\* collaborators.
C14_CollaboratorsUnique ==
  \A l \in ListIds : Exists(store[l]) =>
    \A i, j \in DOMAIN store[l].collaborators :
      i # j => store[l].collaborators[i].userId # store[l].collaborators[j].userId

---------------------------------------------------------------------------
(* Claims under ItemsSpec.                                                 *)

\* doc and pre differ in their items at most
SameButItems(doc, pre) == [doc EXCEPT !.items = pre.items] = pre

\* C33: a successful update item leaves the list as it was but for the text and
\* completed of the one item named, each the value supplied or, when none was
\* supplied, what it was; a successful delete item leaves the list as it was but
\* for its items, which are the items it held without the one named, in the order
\* they stood in; an update or a delete by the owner that names an item the list
\* does not hold is answered 404 and changes nothing.
C33_OneItemTouched ==
  LET before == last.pre.items
      after == store[last.lid].items
      i == FindItem(before, last.arg.itemId)
  IN  /\ (last.op = "updateItem" /\ last.status = 200) =>
           /\ i # 0 /\ SameButItems(store[last.lid], last.pre)
           /\ Len(after) = Len(before)
           /\ \A j \in DOMAIN before : j # i => after[j] = before[j]
           /\ after[i].itemId = before[i].itemId /\ after[i].order = before[i].order
           /\ after[i].text = IF last.arg.text # Absent THEN last.arg.text
                              ELSE before[i].text
           /\ after[i].completed = IF last.arg.completed # Absent
                                   THEN last.arg.completed = "true"
                                   ELSE before[i].completed
      /\ (last.op = "deleteItem" /\ last.status = 200) =>
           /\ i # 0 /\ SameButItems(store[last.lid], last.pre)
           /\ Len(after) = Len(before) - 1
           /\ \A j \in DOMAIN after : after[j] = IF j < i THEN before[j] ELSE before[j + 1]
      /\ (/\ last.op \in {"updateItem", "deleteItem"} /\ Exists(last.pre)
          /\ last.cred = last.pre.owner /\ i = 0) =>
           last.status = 404 /\ store[last.lid] = last.pre

\* the first of two items was deleted and the second is left
C33_Witness ==
  /\ last.op = "deleteItem" /\ last.status = 200
  /\ Len(last.pre.items) = 2 /\ last.arg.itemId = last.pre.items[1].itemId
  /\ store[last.lid].items = <<last.pre.items[2]>>

\* an update that supplied completed alone, for the second of two items
C33_WitnessUpdate ==
  /\ last.op = "updateItem" /\ last.status = 200
  /\ last.arg.text = Absent /\ last.arg.completed = "true"
  /\ Len(last.pre.items) = 2 /\ last.arg.itemId = last.pre.items[2].itemId
  /\ ~last.pre.items[2].completed /\ store[last.lid].items[2].completed

\* an update that named an item the list does not hold
C33_WitnessMissing ==
  /\ last.op = "updateItem" /\ last.status = 404 /\ Exists(last.pre)
  /\ last.pre.items # <<>> /\ FindItem(last.pre.items, last.arg.itemId) = 0

---------------------------------------------------------------------------
(* Claims under SortSpec.                                                  *)

\* C28: after a successful reorderItems the stored items are in non-decreasing
\* order value, and two items of equal order value stand as they stood, one
\* before the other, in the sequence the handler loaded.
C28_SortedAndStable ==
  (last.op = "reorderItems" /\ last.status = 200) =>
    LET after == store[last.lid].items
    IN  \A i, j \in DOMAIN after :
          i < j =>
            /\ after[i].order <= after[j].order
            /\ after[i].order = after[j].order =>
                 FindItem(last.pre.items, after[i].itemId)
                   < FindItem(last.pre.items, after[j].itemId)

\* a reorder that left two items with one order value, after a third
C28_Witness ==
  /\ last.op = "reorderItems" /\ last.status = 200
  /\ LET after == store[last.lid].items
     IN  /\ Len(after) = 3
         /\ after[2].order = after[3].order
         /\ ItemIdsOf(after) # ItemIdsOf(last.pre.items)

\* the items stand with orders 0, 1, 2, ... in sequence
NumberedFromZero(items) == \A i \in DOMAIN items : items[i].order = i - 1

\* C29: a successful add item leaves the items the list held as they were and
\* puts the new item after them, with the text of the request, completed =
\* FALSE and an order equal to the number of items the list held; added to items
\* that stand with orders 0..n-1 it gives orders 0..n.
C29_AddAppends ==
  (last.op = "addItem" /\ last.status = 201) =>
    LET before == last.pre.items
        after == store[last.lid].items
    IN  /\ Len(after) = Len(before) + 1
        /\ SubSeq(after, 1, Len(before)) = before
        /\ after[Len(after)] = [itemId |-> last.arg.itemId, text |-> last.arg.text,
                                completed |-> FALSE, order |-> Len(before)]
        /\ NumberedFromZero(before) => NumberedFromZero(after)

\* the third item added to a list that was only added to
C29_Witness ==
  /\ last.op = "addItem" /\ last.status = 201
  /\ Len(store[last.lid].items) = 3 /\ NumberedFromZero(store[last.lid].items)
  /\ nextItem = 4

---------------------------------------------------------------------------
(* Claims under ConcSpec.                                                  *)

\* C24 as claimed: a create request of an authenticated caller is answered 201
\* whatever ids the generator returns and whatever other create requests are in
\* flight, and the lists it stores have ids of their own.
C24_CreateAlwaysSucceeds ==
  (last.op = "createList" /\ last.cred \in Users) => last.status = 201

\* the list ids a delete removed a document from, and those documents
DeletedIds == {d.lid : d \in removed}
RemovedOids == {d.oid : d \in removed}

\* this step answers a request of one of ops
Answers(ops) == last' # last /\ last'.op \in ops

\* C8 as claimed: a delete of a missing list is answered 404, and once a delete
\* of a list id has succeeded every later fetch of that id is answered 404.
C8_DeletedIdStaysNotFound ==
  [][/\ (Answers({"deleteList"}) /\ last'.cred \in Users /\ ~Exists(last'.pre))
          => last'.status = 404
     /\ (Answers({"getList"}) /\ last'.lid \in DeletedIds) => last'.status = 404]_vars

\* C8 as amended: a delete or fetch that finds no list is answered 404; the
\* owner's delete that finds the list is answered 200 and removes it; no stored
\* document is one a delete removed; a fetch answered 200 read a stored document
\* that was never removed (after a delete, one that a later create stored under
\* the same id); and a rename or add item that loaded the list before the
\* delete and saves after it is answered 500 and writes nothing.
C8_DeletedListNeverComesBack ==
  [][/\ (Answers({"deleteList", "getList"}) /\ ~Exists(last'.pre)) =>
          last'.status = IF last'.op = "deleteList" /\ last'.cred \notin Users
                         THEN 401 ELSE 404
     /\ (Answers({"deleteList"}) /\ Exists(last'.pre) /\ last'.cred = last'.pre.owner) =>
          /\ last'.status = 200
          /\ last'.pre.oid \in RemovedOids'
          /\ store'[last'.lid].oid # last'.pre.oid
     /\ \A l \in ListIds : Exists(store'[l]) => store'[l].oid \notin RemovedOids'
     /\ (Answers({"getList"}) /\ last'.status = 200) =>
          last'.pre = store[last'.lid] /\ last'.pre.oid \notin RemovedOids
     /\ (Answers({"updateName", "addItem"}) /\ last'.pre.oid \in RemovedOids) =>
          last'.status = 500 /\ store' = store]_vars

\* a rename that loaded the list before a delete removed it was answered 500,
\* and the list is still gone
C8_Witness ==
  /\ last.op = "updateName" /\ last.status = 500
  /\ last.pre.oid \in RemovedOids
  /\ ~Exists(store[last.lid])

====
